---- MODULE Spec2Model ----
(***************************************************************************)
(* The recursive research engine of travel-tailor-agent:                   *)
(* ResearchAgent.research_topic and what it calls, in the repository's two *)
(* copies of the agent:                                                    *)
(*   "async"   = src/src/research/research_agent.py  (asyncio.gather)      *)
(*   "threads" = src/src/research_agent.py  (ThreadPoolExecutor + gather)  *)
(*                                                                         *)
(* A run is a tree of branches (activations of research_topic), all of     *)
(* them writing into one shared ResearchResult.  The two lists of the      *)
(* ResearchResult are kept up to the order of their elements: a list is    *)
(* the function giving the number of occurrences of each string in it      *)
(* (list(set(x)) leaves the order unspecified, and no step of              *)
(* research_topic reads the order).                                        *)
(*                                                                         *)
(* Steps.  In the "async" copy research_topic awaits nothing but the       *)
(* gather, so a branch runs from its start to the gather, and from the     *)
(* gather to its return, without any other branch running in between.  In  *)
(* the "threads" copy every launched branch runs asyncio.run(...) in a     *)
(* thread of its parent's ThreadPoolExecutor (the root runs in its         *)
(* caller's thread), and the threads interleave anywhere.  There a step of *)
(* a branch holds one thing another branch can observe: the entry of       *)
(* research_topic, the answer of its search, the append of a URL, the      *)
(* request of a model call, the answer of a model call with the extend of  *)
(* learnings, the submission of one follow-up branch to the executor, the  *)
(* gather, or one half of a deduplication.                                 *)
(* The assignment x = list(set(x)) is not atomic: its right-hand side is   *)
(* evaluated in one step and stored in a later one.                        *)
(*                                                                         *)
(* Three specifications share the variables:                               *)
(*   Spec        a run of research_topic whose services answer freely;     *)
(*   CannedSpec  research_topic(depth=2, breadth=2), and one run of        *)
(*               depth 3, whose services hand out a fixed sequence of      *)
(*               responses, in the order asked;                            *)
(*   ClientSpec  one call of another method of the agent                   *)
(*               (generate_followup_topics, call_claude, fire_crawl,       *)
(*               simple_research, extract_learnings,                       *)
(*               generate_final_report) on bounded inputs, or a sequence   *)
(*               of call_claude calls on the agent's chat contexts.        *)
(*                                                                         *)
(* The status callback is an input: none is registered, or the registered  *)
(* one returns, or it raises.  A run on canned responses keeps the calls   *)
(* it makes of the two services and the events each branch emits.          *)
(***************************************************************************)
EXTENDS Integers, Sequences, FiniteSets, TLC

VARIABLES
    variant,       \* which copy of the agent runs
    status_callback, \* how self.status_callback behaves
    br,            \* the activations of research_topic, by their place in the call tree
    learnings,     \* existing_results.learnings
    visited_urls,  \* existing_results.visited_urls
    running,       \* "async": the coroutine that holds the event loop
    given,         \* the existing_results argument of the root call
    appended,      \* history: the strings appended to either list during the run
    used,          \* history: which services and callbacks the run has used
    canned,        \* the responses the services hold for a run that is fed canned ones
    call           \* a call of one of the agent's other methods: its arguments and its result

vars == <<variant, status_callback, br, learnings, visited_urls, running, given, appended, used, canned, call>>

\* The variables of a run of research_topic.
research == <<br, learnings, visited_urls, running, given, appended, used, canned>>

(* ------------------------------ bounds -------------------------------- *)

MaxDepth == 3
MaxBreadth == 2
MaxWork == 3
CannedLen == 3
MaxLen == 5
MaxUrls == 3
MaxCalls == 3

(* ------------------------- program constants -------------------------- *)

MaxConcurrent == 2
SearchLimit == 3

(* ------------------------------ inputs -------------------------------- *)

Variants == {"async", "threads"}
Findings == {"f1", "f2"}
Urls == {"u1"}

\* What extract_learnings yields for one analysis text: a list of findings,
\* one per bullet of the text, so a finding the text states twice is in the
\* list twice.
ExtractedLists == {<<>>, <<"f1">>, <<"f2">>, <<"f1", "f2">>, <<"f1", "f1">>}

Min(a, b) == IF a < b THEN a ELSE b

\* How the status callback behaves: none is registered (status_callback is
\* None), the registered one returns, or it raises an exception (an
\* Exception: the agent calls it unguarded).
Callbacks == {"none", "returns", "raises"}

\* if self.status_callback:
Registered == status_callback # "none"

EmptyList(S) == [x \in S |-> 0]

\* The accumulator the root call is given: None (a fresh empty one is made),
\* or a ResearchResult of the caller, here one that holds duplicates.
GivenAccumulators ==
    { [passed |-> FALSE, learnings |-> EmptyList(Findings), visited_urls |-> EmptyList(Urls)],
      [passed |-> TRUE, learnings |-> [f \in Findings |-> IF f = "f1" THEN 2 ELSE 0],
       visited_urls |-> [u \in Urls |-> 2]] }

\* The root calls: run_cli_research passes a query and the integers of the
\* command line (int(sys.argv[i+1]), unchecked: --breadth 0 and --breadth -1
\* are calls like any other), the two apps pass the values of their sliders,
\* and none of them passes an accumulator; a caller that passes its own
\* accumulator is modelled for the depths up to 1 (deeper calls with an
\* accumulator are the recursive ones).
RootCalls ==
    {c \in [depth : -1..MaxDepth, breadth : -1..MaxBreadth, existing_results : GivenAccumulators] :
        c.existing_results.passed => c.depth <= 1 /\ c.breadth = 1}

(* ------------------------------ lists --------------------------------- *)

Elements(l) == {x \in DOMAIN l : l[x] > 0}

Append1(l, x) == [l EXCEPT ![x] = @ + 1]

\* An extend that appends the first element only (a fault, to test C19).
ExtendFirst(l, s) == [x \in DOMAIN l |-> l[x] + (IF s # <<>> /\ s[1] = x THEN 1 ELSE 0)]

\* l.extend(s)
Extend(l, s) == [x \in DOMAIN l |-> l[x] + Cardinality({i \in 1..Len(s) : s[i] = x})]

NoDuplicates(l) == \A x \in DOMAIN l : l[x] <= 1

\* A deduplication that keeps every occurrence (a fault, to test C2).
DedupListKeep(l) == l

\* list(set(l))
DedupList(l) == [x \in DOMAIN l |-> IF l[x] > 0 THEN 1 ELSE 0]

(* ----------------------------- branches ------------------------------- *)

Root == <<>>
NoBranch == <<0>>

Parent(p) == SubSeq(p, 1, Len(p) - 1)
Children(p) == {c \in DOMAIN br : Len(c) = Len(p) + 1 /\ SubSeq(c, 1, Len(p)) = p}
Descendants(p) == {c \in DOMAIN br : Len(c) > Len(p) /\ SubSeq(c, 1, Len(p)) = p}

Final == {"returned", "raised"}
Suspended == {"queued", "gather", "returned", "raised"}
Deduplicating == {"dedup", "store_l", "read_u", "store_u"}

\* An activation: its arguments, its place in the code (pc), its locals
\* (nres = len(results), idx = position of the for loop, topics =
\* followup_topics, of each topic whether it is a JSON object, tmp = the
\* value of the right-hand side being stored) and its history: failed = the processing
\* of one of its results raised, own = the findings it extracted; and for a
\* branch that returned after one of its results failed, skipped = the results
\* its loop left out and missing = the findings it extracted that learnings
\* does not hold at its return.
NewBranch(d, b) ==
    [pc |-> "queued", depth |-> d, breadth |-> b, nres |-> 0, idx |-> 0,
     topics |-> <<>>, tmp |-> <<>>, failed |-> FALSE, own |-> {}, missing |-> {}, skipped |-> 0]

\* The activation is over: its locals are gone.
Finished(b, pc, l) ==
    [NewBranch(b.depth, b.breadth) EXCEPT
        !.pc = pc,
        !.missing = IF pc = "returned" /\ b.failed THEN b.own \ Elements(l) ELSE {},
        !.skipped = IF pc = "returned" /\ b.failed THEN b.nres - b.idx ELSE 0]

\* A base case that lets depth 0 through (a fault, to test C1).
BaseCaseNegative(d) == d < 0

\* if depth <= 0: return existing_results
BaseCase(d) == d <= 0

\* A recursion that does not decrement the depth (a fault, to test C3).
ChildDepthSame(d) == d

\* depth=depth-1
ChildDepth(d) == d - 1

\* max(1, breadth - 1)
ChildBreadth(b) == IF b - 1 > 1 THEN b - 1 ELSE 1

(* ---------------------------- scheduling ------------------------------ *)

\* "async": one event loop; a coroutine keeps it from the point it is resumed to
\* its next await (the gather) or its return.  "threads": the root runs in the
\* caller's thread and every other branch in a worker thread of its parent's
\* executor; a thread may step at any time.
MayStep(p) == variant = "threads" \/ running = p

NextRunning(p, pc) ==
    IF variant = "async" /\ pc \notin Suspended THEN p ELSE NoBranch

\* ThreadPoolExecutor(max_workers=self.max_concurrent), one per parent call:
\* its workers take the work items in submission order, and a worker is busy
\* with its item until the item has returned or raised.  The item of branch p
\* has a worker when fewer than max_workers of the items submitted before it
\* are unfinished; from then on its thread runs at its own pace, whether or
\* not the threads of the earlier items have come to their first statement.
WorkerFree(p) ==
    LET sib == Children(Parent(p)) IN
    Cardinality({c \in sib : c[Len(c)] < p[Len(p)] /\ br[c].pc \notin Final}) < MaxConcurrent

MayStart(p) ==
    /\ br[p].pc = "queued"
    /\ IF variant = "async" THEN running = NoBranch
       ELSE p = Root \/ WorkerFree(p)

\* A join that waits for one child only (a fault, to test C7).
GatherCompleteAny(p) == \E c \in Children(p) : br[c].pc \in Final

\* await asyncio.gather(*tasks): every awaitable is done
GatherComplete(p) == \A c \in Children(p) : br[c].pc \in Final

\* ... or one of them has raised
GatherFailed(p) == \E c \in Children(p) : br[c].pc = "raised"

(* --------------------------- the services ----------------------------- *)

\* The services hand at most MaxWork items to a run: search results and
\* follow-up topics.  In the "async" copy every search ends with at least one
\* result (fire_crawl substitutes a synthetic one): the root's is not counted,
\* a follow-up branch's is counted with its topic.
WorkLeft == MaxWork - appended.work

Reserved == IF variant = "async" THEN 1 ELSE 0

\* Number of results fire_crawl hands to research_topic: at most limit=3.
SearchCounts == Reserved..Min(SearchLimit, Reserved + WorkLeft)

\* An item of the list fire_crawl hands to research_topic:
\*   "page"   an object whose markdown is non-empty
\*   "empty"  an object whose markdown is missing or empty
\*   "other"  a JSON value that is not an object (a number, a string, null)
\* (the title, url and markdown of an object being strings).
\* The "async" fire_crawl builds every item itself, with a markdown; the
\* "threads" fire_crawl returns the items of the 'data' of the answer as
\* they are.
Items == IF variant = "async" THEN {"page"} ELSE {"page", "empty", "other"}

(* ----------------------- generate_followup_topics --------------------- *)

\* An entry of the JSON list the model returns for the follow-up prompt:
\*   "t1", "t2"  an object with 'query' and 'research_goal', two different queries
\*   "blank"     an object with both keys whose query is ""
\*   "nogoal"    an object without 'research_goal'
\*   "noquery"   an object without 'query'
\*   "number"    a JSON number
\*   "words"     a JSON string in which both key names occur, such as
\*               "query and research_goal"
\* (A string or a list in which one of the names does not occur is to the
\* validation what "nogoal" is; null, true and false are what "number" is;
\* a list that holds both names is what "words" is.)
Entries == {"t1", "t2", "blank", "nogoal", "noquery", "number", "words"}

\* 'query' in topic and 'research_goal' in topic: the membership test of the
\* entry, which for an object looks among its keys and for a string among
\* its substrings.
HasKeys(e) == e \in {"t1", "t2", "blank", "words"}

\* The entry is a JSON object: it has .get and [key].
IsObject(e) == e \notin {"number", "words"}

\* 'query' not in topic is defined: for a number it raises TypeError
\* (argument of type 'int' is not iterable).
IsContainer(e) == e # "number"

\* topic.get('query') is a non-empty string
HasQuery(e) == e \in {"t1", "t2"}

\* What call_claude gives generate_followup_topics: a text that is not JSON,
\* a JSON value that is not a list, or a JSON list of entries; or call_claude
\* raises after its last attempt.
CallFailed == [kind |-> "error", entries |-> <<>>]
NotJson == [kind |-> "text", entries |-> <<>>]
NotAList == [kind |-> "value", entries |-> <<>>]
JsonList(s) == [kind |-> "list", entries |-> s]

\* The texts whose list, if they are one, holds at most n entries.
Texts(n) ==
    {NotJson, NotAList} \cup {JsonList(s) : s \in UNION {[1..k -> Entries] : k \in 0..n}}

\* for topic in topics: the first entry the validation stops at (0: none).
FirstInvalid(s) ==
    LET bad == {i \in 1..Len(s) : ~HasKeys(s[i])} IN
    IF bad = {} THEN 0 ELSE CHOOSE i \in bad : \A j \in bad : i <= j

\* A truncation that keeps the whole list (a fault, to test C13).
TruncateNone(s, n) == s

\* topics[:num_topics]
Truncate(s, n) == SubSeq(s, 1, IF n >= 0 THEN Min(n, Len(s)) ELSE Len(s) + n)

\* generate_followup_topics: the list it returns, or raised = an exception
\* leaves it (call_claude's, or the TypeError of the validation: the except
\* clauses catch JSONDecodeError and ValueError only).
generate_followup_topics(response, num_topics) ==
    IF response.kind = "error" THEN [raised |-> TRUE, topics |-> <<>>]
    ELSE IF response.kind # "list" THEN [raised |-> FALSE, topics |-> <<>>]
    ELSE LET i == FirstInvalid(response.entries) IN
         IF i = 0
         THEN [raised |-> FALSE, topics |-> Truncate(response.entries, num_topics)]
         ELSE [raised |-> ~IsContainer(response.entries[i]), topics |-> <<>>]

(* ------------------------------ actions ------------------------------- *)

Set(p, r) == br' = [br EXCEPT ![p] = r]

\* Where a branch stands after its sources: at the follow-up stage when depth
\* permits, else at the final deduplication.
AfterSources(b) ==
    IF b.idx = b.nres /\ b.depth <= 1 THEN [b EXCEPT !.pc = "dedup"] ELSE [b EXCEPT !.pc = "loop"]

\* Entry of research_topic.  The research_start event comes before the try
\* (and before the search): an exception of the callback leaves
\* research_topic.  "async": the step runs on to the end of the search, which
\* yields n results.  "threads": the step ends with the request of the
\* search; other threads run while the branch waits for the answer.
StartWith(p, n) ==
    /\ LET b == br[p] IN
       IF BaseCase(b.depth)
       THEN /\ Set(p, Finished(b, "returned", learnings))
            /\ running' = NoBranch
            /\ UNCHANGED <<appended, used>>
       ELSE IF status_callback = "raises"
       THEN /\ Set(p, Finished(b, "raised", learnings))
            /\ running' = NoBranch
            /\ used' = [used EXCEPT !.events = TRUE]
            /\ UNCHANGED appended
       ELSE IF variant = "threads"
       THEN /\ Set(p, [b EXCEPT !.pc = "search"])
            /\ used' = [used EXCEPT !.search = TRUE, !.events = Registered]
            /\ UNCHANGED <<running, appended>>
       ELSE LET r == IF n = 0
                     THEN Finished(b, "returned", learnings)
                     ELSE AfterSources([b EXCEPT !.nres = n])
            IN  /\ Set(p, r)
                /\ running' = NextRunning(p, r.pc)
                /\ appended' = [appended EXCEPT !.work = @ + n - Reserved]
                /\ used' = [used EXCEPT !.search = TRUE, !.events = Registered]
    /\ UNCHANGED <<variant, status_callback, learnings, visited_urls, given, call>>

Start(p) ==
    /\ MayStart(p)
    /\ \E n \in IF variant = "async" THEN SearchCounts ELSE {0} : StartWith(p, n)
    /\ UNCHANGED canned

\* results = self.fire_crawl(query) of a "threads" branch comes back: with n
\* results, or with an exception (the body of a success status is not an
\* object, or its 'data' is null: fire_crawl catches RequestException only),
\* which leaves research_topic, where the call stands outside every try.
FoundWith(p, n, raised) ==
    /\ br[p].pc = "search"
    /\ IF raised
       THEN /\ Set(p, Finished(br[p], "raised", learnings))
            /\ UNCHANGED appended
       ELSE /\ Set(p, AfterSources([br[p] EXCEPT !.nres = n]))
            /\ appended' = [appended EXCEPT !.work = @ + n]
    /\ UNCHANGED <<variant, status_callback, learnings, visited_urls, running, given, used, call>>

Found(p) ==
    /\ br[p].pc = "search"
    /\ \/ \E n \in SearchCounts : FoundWith(p, n, FALSE)
       \/ FoundWith(p, 0, TRUE)
    /\ UNCHANGED canned

\* except Exception as e: print(...); continue
AnalysisFailed(b) == [b EXCEPT !.failed = TRUE, !.idx = @ + 1]

\* The branch is at a result of its search.
AtSource(p) == br[p].pc = "loop" /\ br[p].idx < br[p].nres /\ MayStep(p)

\* What the analysis of one source comes to: call_claude raises after its
\* last attempt, or extract_learnings yields the findings of its text.
Analyses ==
    {[ok |-> FALSE, findings |-> <<>>]} \cup {[ok |-> TRUE, findings |-> l] : l \in ExtractedLists}

\* One iteration of "for result in results" of an "async" branch, which
\* nothing interrupts: an empty source is skipped; else its URL is appended,
\* call_claude analyses it and the findings that extract_learnings returns
\* are appended.
ProcessWith(p, content, u, analysis) ==
    /\ IF ~content
       THEN /\ Set(p, AfterSources([br[p] EXCEPT !.idx = @ + 1]))
            /\ used' = [used EXCEPT !.events = @ \/ (Registered /\ variant = "async")]
            /\ UNCHANGED <<learnings, visited_urls, appended>>
       ELSE /\ visited_urls' = Append1(visited_urls, u)
            /\ used' = [used EXCEPT !.events = Registered, !.model = TRUE]
            /\ IF ~analysis.ok
               THEN /\ Set(p, AfterSources(AnalysisFailed(br[p])))
                    /\ appended' = [appended EXCEPT !.visited_urls = @ \cup {u}]
                    /\ UNCHANGED learnings
               ELSE LET new == analysis.findings
                        fs == {new[i] : i \in 1..Len(new)}
                    IN  /\ learnings' = Extend(learnings, new)
                        /\ appended' = [appended EXCEPT !.visited_urls = @ \cup {u},
                                                        !.learnings = @ \cup fs]
                        /\ Set(p, AfterSources([br[p] EXCEPT !.idx = @ + 1, !.own = @ \cup fs]))
    /\ UNCHANGED <<variant, status_callback, running, given, call>>

\* The head of an iteration of a "threads" branch, up to
\* existing_results.visited_urls.append(url): an empty source is skipped
\* before any event.  For an item that is not an object, result.get raises
\* at the head of the try, and again in the print of the except clause:
\* that exception leaves the loop and research_topic.
VisitWith(p, item, u) ==
    /\ IF item = "other"
       THEN /\ Set(p, Finished(br[p], "raised", learnings))
            /\ UNCHANGED <<visited_urls, appended, used>>
       ELSE IF item = "empty"
       THEN /\ Set(p, AfterSources([br[p] EXCEPT !.idx = @ + 1]))
            /\ UNCHANGED <<visited_urls, appended, used>>
       ELSE /\ visited_urls' = Append1(visited_urls, u)
            /\ appended' = [appended EXCEPT !.visited_urls = @ \cup {u}]
            /\ used' = [used EXCEPT !.events = Registered]
            /\ Set(p, [br[p] EXCEPT !.pc = "visited"])
    /\ UNCHANGED <<variant, status_callback, learnings, running, given, call>>

Process(p) ==
    /\ AtSource(p)
    /\ IF variant = "async"
       THEN \E item \in Items, u \in Urls, analysis \in Analyses :
              ProcessWith(p, item # "empty", u, analysis)
       ELSE \E item \in Items, u \in Urls : VisitWith(p, item, u)
    /\ UNCHANGED canned

\* analysis = self.call_claude(analysis_prompt) of a "threads" branch: the
\* request; other threads run while the branch waits for the answer.
AnalyseStep(p) ==
    /\ br[p].pc = "visited"
    /\ Set(p, [br[p] EXCEPT !.pc = "wait"])
    /\ used' = [used EXCEPT !.model = TRUE]
    /\ UNCHANGED <<variant, status_callback, learnings, visited_urls, running, given, appended, call>>

Analyse(p) == AnalyseStep(p) /\ UNCHANGED canned

\* The rest of the iteration of a "threads" branch, once call_claude has
\* answered or raised: existing_results.learnings.extend(new_learnings), or
\* the except clause.
LearnWith(p, analysis) ==
    /\ br[p].pc = "wait"
    /\ IF ~analysis.ok
       THEN /\ Set(p, AfterSources(AnalysisFailed(br[p])))
            /\ UNCHANGED <<learnings, appended>>
       ELSE LET new == analysis.findings
                fs == {new[i] : i \in 1..Len(new)}
            IN  /\ learnings' = Extend(learnings, new)
                /\ appended' = [appended EXCEPT !.learnings = @ \cup fs]
                /\ Set(p, AfterSources([br[p] EXCEPT !.idx = @ + 1, !.own = @ \cup fs]))
    /\ UNCHANGED <<variant, status_callback, visited_urls, running, given, used, call>>

Learn(p) ==
    /\ br[p].pc = "wait"
    /\ \E analysis \in Analyses : LearnWith(p, analysis)
    /\ UNCHANGED canned

\* if depth > 1 [and existing_results.learnings]
WantsFollowups(p) ==
    /\ br[p].depth > 1
    /\ variant = "async" => Elements(learnings) # {}

\* for topic in followup_topics: the first topic that is not an object (0:
\* none).  There topic.get('query') ("async") or topic['query'] ("threads")
\* raises.
FirstOther(topics) ==
    LET bad == {i \in 1..Len(topics) : ~IsObject(topics[i])} IN
    IF bad = {} THEN 0 ELSE CHOOSE i \in bad : \A j \in bad : i <= j

\* The topics the loop comes to a followup_topic event for: those before the
\* first that is not an object; "async" skips a topic whose query is empty.
Announced(topics) ==
    {i \in 1..Len(topics) : /\ FirstOther(topics) = 0 \/ i < FirstOther(topics)
                            /\ variant = "threads" \/ HasQuery(topics[i])}

\* The topics a branch is launched for.  "threads" hands each to the executor
\* in its iteration; "async" makes the coroutines in the loop and starts
\* them in the gather after it, which an exception of the loop passes by.
Launched(topics) ==
    IF variant = "async" /\ FirstOther(topics) # 0 THEN {} ELSE Announced(topics)

TopicsCost(topics) == Len(topics) + Reserved * Cardinality(Launched(topics))

\* The loop over the topics of an "async" branch: the coroutines of all the
\* follow-up branches are made, and then gathered; when the loop raises, the
\* except Exception of research_topic takes the branch to the deduplication.
Spawn(p, topics) ==
    LET kids == {Append(p, i) : i \in Launched(topics)}
        pc == IF kids = {} THEN "dedup" ELSE "gather"
    IN  /\ br' = [q \in DOMAIN br \cup kids |->
                   IF q \in kids
                   THEN NewBranch(ChildDepth(br[p].depth), ChildBreadth(br[p].breadth))
                   ELSE IF q = p THEN [br[p] EXCEPT !.pc = pc]
                   ELSE br[q]]
        /\ running' = NextRunning(p, pc)
        /\ appended' = [appended EXCEPT !.work = @ + TopicsCost(topics)]

\* The branch has left its for loop.
AfterLastSource(p) == br[p].pc = "loop" /\ br[p].idx = br[p].nres /\ MayStep(p)

\* The follow-up stage is skipped.
NoFollowup(p) ==
    /\ Set(p, [br[p] EXCEPT !.pc = "dedup"])
    /\ UNCHANGED <<variant, status_callback, learnings, visited_urls, given, running, used, appended, call>>

\* Follow-up generation of an "async" branch, for which call_claude gives
\* response, and the launch of the children.  An exception is caught by the
\* except Exception of research_topic.
FollowupWith(p, response) ==
    /\ LET r == generate_followup_topics(response, br[p].breadth) IN
       /\ used' = [used EXCEPT !.model = TRUE]
       /\ IF r.raised
          THEN /\ Set(p, [br[p] EXCEPT !.pc = "dedup"])
               /\ running' = NextRunning(p, br'[p].pc)
               /\ UNCHANGED appended
          ELSE Spawn(p, r.topics)
    /\ UNCHANGED <<variant, status_callback, learnings, visited_urls, given, call>>

\* followup_topics = self.generate_followup_topics(...) of a "threads"
\* branch, up to the request of its call_claude.
AskFollowup(p) ==
    /\ Set(p, [br[p] EXCEPT !.pc = "followup"])
    /\ used' = [used EXCEPT !.model = TRUE]
    /\ UNCHANGED <<variant, status_callback, learnings, visited_urls, given, running, appended, call>>

\* The number of entries of the longest response a run is given.  For
\* num_topics >= 0, topics[:num_topics] keeps of a longer one what it keeps
\* of its first num_topics entries; for a negative num_topics it drops the
\* last -num_topics entries of a response of any length, so there the
\* response is that much longer than what the run may keep of it.
ResponseLen(b) == IF b >= 0 THEN Min(b, WorkLeft) ELSE Min(MaxBreadth, WorkLeft) - b

\* The responses to the follow-up prompt a run is given: call_claude raises,
\* or the model returns a list of at most n entries that pass the validation:
\* topics with a query, topics with an empty query, and strings that hold
\* both key names.  (For a text that is no such list generate_followup_topics
\* returns [], as it does for the empty list, or raises, as it does when
\* call_claude raises.)
FollowupResponses(n) ==
    {CallFailed}
    \cup {JsonList(s) : s \in UNION {[1..k -> {"t1", "blank", "words"}] : k \in 0..n}}

\* After the last source.
Followup(p) ==
    /\ AfterLastSource(p)
    /\ IF ~WantsFollowups(p) THEN NoFollowup(p)
       ELSE IF variant = "threads" THEN AskFollowup(p)
       ELSE \E response \in FollowupResponses(ResponseLen(br[p].breadth)) :
              /\ TopicsCost(generate_followup_topics(response, br[p].breadth).topics) <= WorkLeft
              /\ FollowupWith(p, response)
    /\ UNCHANGED canned

\* generate_followup_topics of a "threads" branch returns, its call_claude
\* having given response: the branch goes on to submit its topics, or to the
\* deduplication when it has none (the gather of no task is done at once);
\* an exception leaves research_topic.
TopicsWith(p, response) ==
    /\ br[p].pc = "followup"
    /\ LET r == generate_followup_topics(response, br[p].breadth) IN
       IF r.raised
       THEN /\ Set(p, Finished(br[p], "raised", learnings))
            /\ UNCHANGED appended
       ELSE /\ Set(p, [br[p] EXCEPT !.pc = IF r.topics = <<>> THEN "dedup" ELSE "submit",
                                    !.topics = [i \in 1..Len(r.topics) |->
                                                   IsObject(r.topics[i])]])
            /\ appended' = [appended EXCEPT !.work = @ + TopicsCost(r.topics)]
    /\ UNCHANGED <<variant, status_callback, learnings, visited_urls, running, given, used, call>>

Topics(p) ==
    /\ br[p].pc = "followup"
    /\ \E response \in FollowupResponses(ResponseLen(br[p].breadth)) :
         /\ TopicsCost(generate_followup_topics(response, br[p].breadth).topics) <= WorkLeft
         /\ TopicsWith(p, response)
    /\ UNCHANGED canned

\* One iteration of "for topic in followup_topics" of a "threads" branch: the
\* followup_topic event and loop.run_in_executor(...), which hands the topic's
\* research_topic call to the executor; after the last one the branch awaits
\* the gather.  At a topic that is not an object topic['query'] raises, in
\* the print before the event: the exception leaves research_topic, which
\* neither gathers the branches it has submitted nor shuts the executor
\* down; they run on.
SubmitStep(p) ==
    /\ br[p].pc = "submit"
    /\ LET k == Cardinality(Children(p)) + 1
           kid == Append(p, k)
       IN  IF ~br[p].topics[k]
           THEN /\ Set(p, Finished(br[p], "raised", learnings))
                /\ UNCHANGED used
           ELSE /\ br' = [q \in DOMAIN br \cup {kid} |->
                           IF q = kid
                           THEN NewBranch(ChildDepth(br[p].depth), ChildBreadth(br[p].breadth))
                           ELSE IF q = p
                           THEN [br[p] EXCEPT !.pc = IF k = Len(br[p].topics)
                                                     THEN "gather" ELSE "submit"]
                           ELSE br[q]]
                /\ used' = [used EXCEPT !.events = Registered]
    /\ UNCHANGED <<variant, status_callback, learnings, visited_urls, running, given, appended, call>>

Submit(p) == SubmitStep(p) /\ UNCHANGED canned

\* The parent is resumed from the gather: with the results when every child
\* is done, with the exception as soon as one child has raised.
Gather(p) ==
    /\ br[p].pc = "gather"
    /\ variant = "async" => running = NoBranch
    /\ GatherFailed(p) \/ GatherComplete(p)
    /\ IF GatherFailed(p) /\ variant = "threads"
       THEN Set(p, Finished(br[p], "raised", learnings))
       ELSE Set(p, [br[p] EXCEPT !.pc = "dedup"])
    /\ running' = NextRunning(p, br'[p].pc)
    /\ UNCHANGED <<variant, status_callback, learnings, visited_urls, given, appended, used, canned, call>>

\* existing_results.learnings = list(set(existing_results.learnings))
\* existing_results.visited_urls = list(set(existing_results.visited_urls))
\* return existing_results
\* Each right-hand side is evaluated, and then the attribute is stored.
Dedup(p) ==
    /\ MayStep(p)
    /\ \/ /\ br[p].pc = "dedup"
          /\ Set(p, [br[p] EXCEPT !.pc = "store_l", !.tmp = DedupList(learnings)])
          /\ UNCHANGED <<learnings, visited_urls, running>>
       \/ /\ br[p].pc = "store_l"
          /\ learnings' = br[p].tmp
          /\ Set(p, [br[p] EXCEPT !.pc = "read_u", !.tmp = <<>>])
          /\ UNCHANGED <<visited_urls, running>>
       \/ /\ br[p].pc = "read_u"
          /\ Set(p, [br[p] EXCEPT !.pc = "store_u", !.tmp = DedupList(visited_urls)])
          /\ UNCHANGED <<learnings, visited_urls, running>>
       \/ /\ br[p].pc = "store_u"
          /\ visited_urls' = br[p].tmp
          /\ Set(p, Finished(br[p], "returned", learnings))
          /\ running' = NoBranch
          /\ UNCHANGED learnings
    /\ UNCHANGED <<variant, status_callback, given, appended, used, canned, call>>

\* No method is called beside research_topic.
NoCall == [fn |-> "none", done |-> TRUE]

\* The canned responses of a run, handed out in the order of the requests:
\* search[i] is the number of results of the i-th search (-1: fire_crawl
\* raises), analysis[i] what the i-th analysis comes to, followup[i] the
\* response to the i-th follow-up prompt; ns, na and nf count the requests
\* made; empty[i] holds the places, in the list the i-th search returns, of
\* the results whose markdown is empty, and other[i] the places of those
\* that are not objects.  calls lists the calls of the services
\* in the order they were made, events[p] the events branch p has emitted,
\* asked[p] is the search that branch p is answered with, and waiting[p] the
\* model call whose answer branch p waits for.  A run that is fed none:
NoCanned ==
    [search |-> <<>>, empty |-> <<>>, other |-> <<>>, analysis |-> <<>>, followup |-> <<>>,
     ns |-> 0, na |-> 0, nf |-> 0, calls |-> <<>>, events |-> <<>>, asked |-> <<>>,
     waiting |-> <<>>]

Init ==
    /\ variant \in Variants
    /\ \E c \in RootCalls :
         /\ given = c.existing_results
         /\ br = (Root :> NewBranch(c.depth, c.breadth))
    /\ learnings = given.learnings
    /\ visited_urls = given.visited_urls
    /\ running = NoBranch
    /\ appended = [learnings |-> {}, visited_urls |-> {}, work |-> 0]
    /\ used = [search |-> FALSE, model |-> FALSE, events |-> FALSE]
    /\ canned = NoCanned
    /\ call = NoCall
    /\ status_callback \in Callbacks

Next ==
    \/ \E p \in DOMAIN br : Start(p)
    \/ \E p \in DOMAIN br : Found(p)
    \/ \E p \in DOMAIN br : Process(p)
    \/ \E p \in DOMAIN br : Analyse(p)
    \/ \E p \in DOMAIN br : Learn(p)
    \/ \E p \in DOMAIN br : Followup(p)
    \/ \E p \in DOMAIN br : Topics(p)
    \/ \E p \in DOMAIN br : Submit(p)
    \/ \E p \in DOMAIN br : Gather(p)
    \/ \E p \in DOMAIN br : Dedup(p)

Spec == Init /\ [][Next]_vars

(* ---------------- research_topic fed canned responses ----------------- *)

TapeWith(search, empty, other, analysis, followup) ==
    [search |-> search, empty |-> empty, other |-> other, analysis |-> analysis,
     followup |-> followup, ns |-> 0, na |-> 0, nf |-> 0, calls |-> <<>>,
     events |-> <<>>, asked |-> <<>>, waiting |-> <<>>]

\* Responses whose search results are all objects with content.
Tape(search, analysis, followup) ==
    TapeWith(search, [i \in 1..Len(search) |-> {}], [i \in 1..Len(search) |-> {}],
             analysis, followup)

\* Branch p is answered with the i-th search.
Asked(c, p, i) ==
    [c EXCEPT !.ns = i,
              !.asked = [q \in DOMAIN c.asked \cup {p} |-> IF q = p THEN i ELSE c.asked[q]]]

\* Branch p waits for the answer to the i-th model call of its kind.
Waits(c, p, i) ==
    [c EXCEPT !.waiting = [q \in DOMAIN c.waiting \cup {p} |-> IF q = p THEN i ELSE c.waiting[q]]]

\* The result branch p is at
Item(c, p) ==
    IF (br[p].idx + 1) \in c.other[c.asked[p]] THEN "other"
    ELSE IF (br[p].idx + 1) \in c.empty[c.asked[p]] THEN "empty"
    ELSE "page"

\* The mock notes the calls made and the callback the events of branch p.
Logged(c, p, calls, events) ==
    [c EXCEPT !.calls = @ \o calls,
              !.events = [q \in DOMAIN c.events \cup {p} |->
                             IF q # p THEN c.events[q]
                             ELSE IF p \in DOMAIN c.events THEN c.events[p] \o events
                             ELSE events]]

\* self.status_callback(kind, ...) n times, when a callback is registered
Events(kind, n) == IF status_callback = "none" THEN <<>> ELSE [i \in 1..n |-> kind]

\* The events of a branch from its entry to the end of its search of n
\* results: research_start, and the "async" copy's rate_limit event for a
\* search without results.
StartEvents(d, n) ==
    IF BaseCase(d) THEN <<>>
    ELSE Events("research_start", 1)
         \o IF status_callback # "raises" /\ variant = "async" /\ n = 0
            THEN Events("rate_limit", 1) ELSE <<>>

\* Events that report the findings of a source before the source (a fault,
\* to test C31).
SourceEventsLearningsFirst(content, analysis) ==
    IF ~content
    THEN IF variant = "async" THEN Events("source_processing", 1) ELSE <<>>
    ELSE (IF analysis.ok THEN Events("new_learning", Len(analysis.findings)) ELSE <<>>)
         \o Events("source_processing", 1)

\* The events of one iteration of the loop over the results: the "async"
\* copy emits source_processing before it tests the content, the "threads"
\* copy after; then one new_learning for every finding.
SourceEvents(content, analysis) ==
    IF ~content
    THEN IF variant = "async" THEN Events("source_processing", 1) ELSE <<>>
    ELSE Events("source_processing", 1)
         \o IF analysis.ok THEN Events("new_learning", Len(analysis.findings)) ELSE <<>>

\* for learning in new_learnings: self.status_callback("new_learning", learning)
LearningEvents(analysis) ==
    IF analysis.ok THEN Events("new_learning", Len(analysis.findings)) ELSE <<>>

\* The events of the follow-up stage of an "async" branch: one
\* followup_topic for every topic the loop comes to launch; the except clause
\* emits rate_limit.
FollowupEvents(r) ==
    IF r.raised THEN Events("rate_limit", 1)
    ELSE Events("followup_topic", Cardinality(Announced(r.topics)))
         \o IF FirstOther(r.topics) # 0 THEN Events("rate_limit", 1) ELSE <<>>

\* The canned responses: every response to the follow-up prompt with a fixed
\* search and analysis tape, for both copies; every search and analysis
\* tape with some well-formed follow-up responses, for the copy that runs its
\* branches as coroutines; for both copies, an analysis that repeats a
\* finding; and, for the copy whose fire_crawl hands on what the service
\* answered and lets an exception through, a search without results for the
\* root or for one of its follow-up branches, search results without
\* content, a search that raises and search results that are not objects.
\* The fire_crawl of the "async" copy returns neither an empty list nor a
\* result without content (it returns its synthetic result, or fills the
\* content in), so the tapes of that copy hold none.
CannedResponses(v) ==
    {Tape(<<1, 1, 1>>, <<[ok |-> TRUE, findings |-> <<"f1">>],
                         [ok |-> TRUE, findings |-> <<"f2">>],
                         [ok |-> TRUE, findings |-> <<"f1", "f2">>]>>, <<t>>) :
        t \in {CallFailed} \cup Texts(MaxBreadth + 1)}
    \cup
    {Tape(s, a, <<JsonList(t)>>) :
        s \in IF v = "async" THEN [1..3 -> 1..2] ELSE {},
        a \in [1..CannedLen -> Analyses],
        t \in {<<"t1", "t2">>, <<"blank", "t1", "t2">>}}
    \cup
    {Tape(s, <<[ok |-> TRUE, findings |-> <<"f1", "f1">>],
               [ok |-> TRUE, findings |-> <<"f2">>],
               [ok |-> FALSE, findings |-> <<>>]>>, <<JsonList(<<"t1", "t2">>)>>) :
        s \in {<<1, 1, 1>>} \cup
              IF v = "threads" THEN {<<0, 1, 1>>, <<1, 0, 1>>, <<1, 1, 0>>, <<1, 2, 0>>} ELSE {}}
    \cup
    {TapeWith(<<2, 1, 1>>, e, <<{}, {}, {}>>, <<[ok |-> TRUE, findings |-> <<"f1", "f2">>],
                                [ok |-> TRUE, findings |-> <<"f2">>],
                                [ok |-> FALSE, findings |-> <<>>]>>,
              <<JsonList(<<"t1", "t2">>)>>) :
        e \in IF v = "threads"
              THEN {<<{1}, {}, {}>>, <<{2}, {}, {}>>, <<{1, 2}, {}, {}>>, <<{}, {1}, {}>>}
              ELSE {}}
    \cup
    {Tape(s, <<[ok |-> TRUE, findings |-> <<"f1">>],
               [ok |-> TRUE, findings |-> <<"f2">>]>>, <<JsonList(<<"t1", "t2">>)>>) :
        s \in IF v = "threads" THEN {<<-1>>, <<1, -1, 1>>, <<1, 1, -1>>} ELSE {}}
    \cup
    {TapeWith(<<2, 1, 1>>, <<{}, {}, {}>>, o,
              <<[ok |-> TRUE, findings |-> <<"f1">>],
                [ok |-> TRUE, findings |-> <<"f2">>],
                [ok |-> TRUE, findings |-> <<"f1", "f2">>]>>, <<JsonList(<<"t1", "t2">>)>>) :
        o \in IF v = "threads" THEN {<<{1}, {}, {}>>, <<{2}, {}, {}>>, <<{}, {1}, {}>>} ELSE {}}

\* The canned responses of a run of depth 3: every search has one result,
\* every analysis one finding, and every response to the follow-up prompt
\* holds more topics than any branch may launch.
DeepResponses ==
    {Tape([i \in 1..5 |-> 1], [i \in 1..5 |-> [ok |-> TRUE, findings |-> <<"f1">>]],
          [i \in 1..3 |-> JsonList(<<"t1", "t2", "t1">>)])}

\* The root calls of the canned runs: research_topic(query, depth=2,
\* breadth=2), the defaults, on CannedResponses; research_topic(query,
\* depth=3, breadth=2) on DeepResponses.
CannedCalls(v) ==
    {[depth |-> 2, breadth |-> 2, responses |-> t] : t \in CannedResponses(v)}
    \cup {[depth |-> 3, breadth |-> 2, responses |-> t] : t \in DeepResponses}

\* The URL of a canned search result.
CannedUrl == CHOOSE u \in Urls : TRUE

\* research_topic(query, depth, breadth) with a mock of the two services.
CannedInit ==
    /\ variant \in Variants
    /\ given = [passed |-> FALSE, learnings |-> EmptyList(Findings),
                visited_urls |-> EmptyList(Urls)]
    /\ \E c \in CannedCalls(variant) :
         /\ br = (Root :> NewBranch(c.depth, c.breadth))
         /\ canned = c.responses
    /\ learnings = given.learnings
    /\ visited_urls = given.visited_urls
    /\ running = NoBranch
    /\ appended = [learnings |-> {}, visited_urls |-> {}, work |-> 0]
    /\ used = [search |-> FALSE, model |-> FALSE, events |-> FALSE]
    /\ call = NoCall
    /\ status_callback \in Callbacks

CannedStart(p) ==
    /\ MayStart(p)
    /\ IF BaseCase(br[p].depth) \/ status_callback = "raises"
       THEN /\ StartWith(p, 0)
            /\ canned' = Logged(canned, p, <<>>, StartEvents(br[p].depth, 0))
       ELSE /\ canned.ns < Len(canned.search)
            /\ StartWith(p, canned.search[canned.ns + 1])
            /\ canned' = Logged(Asked(canned, p, canned.ns + 1), p, <<"search">>,
                                StartEvents(br[p].depth, canned.search[canned.ns + 1]))

CannedFound(p) ==
    /\ br[p].pc = "search"
    /\ LET n == canned.search[canned.asked[p]] IN
       FoundWith(p, IF n < 0 THEN 0 ELSE n, n < 0)
    /\ UNCHANGED canned

CannedProcess(p) ==
    /\ AtSource(p)
    /\ IF variant = "threads"
       THEN /\ VisitWith(p, Item(canned, p), CannedUrl)
            /\ canned' = Logged(canned, p, <<>>,
                                IF Item(canned, p) = "other" THEN <<>>
                                ELSE SourceEvents(Item(canned, p) = "page",
                                                  [ok |-> FALSE, findings |-> <<>>]))
       ELSE IF Item(canned, p) = "page"
       THEN /\ canned.na < Len(canned.analysis)
            /\ ProcessWith(p, TRUE, CannedUrl, canned.analysis[canned.na + 1])
            /\ canned' = Logged([canned EXCEPT !.na = @ + 1], p, <<"analysis">>,
                                SourceEvents(TRUE, canned.analysis[canned.na + 1]))
       ELSE /\ ProcessWith(p, FALSE, CannedUrl, [ok |-> FALSE, findings |-> <<>>])
            /\ canned' = Logged(canned, p, <<>>,
                                SourceEvents(FALSE, [ok |-> FALSE, findings |-> <<>>]))

CannedAnalyse(p) ==
    /\ canned.na < Len(canned.analysis)
    /\ AnalyseStep(p)
    /\ canned' = Logged(Waits([canned EXCEPT !.na = @ + 1], p, canned.na + 1),
                        p, <<"analysis">>, <<>>)

CannedLearn(p) ==
    /\ br[p].pc = "wait"
    /\ LearnWith(p, canned.analysis[canned.waiting[p]])
    /\ canned' = Logged(canned, p, <<>>, LearningEvents(canned.analysis[canned.waiting[p]]))

CannedFollowup(p) ==
    /\ AfterLastSource(p)
    /\ IF ~WantsFollowups(p) THEN NoFollowup(p) /\ UNCHANGED canned
       ELSE /\ canned.nf < Len(canned.followup)
            /\ IF variant = "threads"
               THEN /\ AskFollowup(p)
                    /\ canned' = Logged(Waits([canned EXCEPT !.nf = @ + 1], p, canned.nf + 1),
                                        p, <<"followup">>, <<>>)
               ELSE /\ FollowupWith(p, canned.followup[canned.nf + 1])
                    /\ canned' = Logged([canned EXCEPT !.nf = @ + 1], p, <<"followup">>,
                                        FollowupEvents(generate_followup_topics(
                                            canned.followup[canned.nf + 1], br[p].breadth)))

CannedTopics(p) ==
    /\ br[p].pc = "followup"
    /\ TopicsWith(p, canned.followup[canned.waiting[p]])
    /\ UNCHANGED canned

CannedSubmit(p) ==
    /\ SubmitStep(p)
    /\ canned' = Logged(canned, p, <<>>,
                        IF br[p].topics[Cardinality(Children(p)) + 1]
                        THEN Events("followup_topic", 1)
                        ELSE <<>>)

CannedNext ==
    \/ \E p \in DOMAIN br : CannedStart(p)
    \/ \E p \in DOMAIN br : CannedFound(p)
    \/ \E p \in DOMAIN br : CannedProcess(p)
    \/ \E p \in DOMAIN br : CannedAnalyse(p)
    \/ \E p \in DOMAIN br : CannedLearn(p)
    \/ \E p \in DOMAIN br : CannedFollowup(p)
    \/ \E p \in DOMAIN br : CannedTopics(p)
    \/ \E p \in DOMAIN br : CannedSubmit(p)
    \/ \E p \in DOMAIN br : Gather(p)
    \/ \E p \in DOMAIN br : Dedup(p)

CannedSpec == CannedInit /\ [][CannedNext]_vars

\* research_topic of the "async" copy run on the canned responses t, its
\* coroutines one at a time in the order the event loop gives them: a
\* coroutine runs from its start to its gather (or to its end), the
\* coroutines a gather creates join the back of the queue of the ones ready
\* to start, and the loop takes the front one next; so all siblings run
\* before any of their children.  st holds the responses handed out so far,
\* the strings put into the two lists and the queue; stalled = a service had
\* no response left.  A coroutine resumed after its gather asks nothing of
\* the services and adds no string.
SerialBranch(t, st, d, b) ==
    IF BaseCase(d) \/ st.stalled THEN st
    ELSE IF st.ns >= Len(t.search) THEN [st EXCEPT !.stalled = TRUE]
    ELSE LET n == t.search[st.ns + 1] - Cardinality(t.empty[st.ns + 1]) IN
         IF st.na + n > Len(t.analysis) THEN [st EXCEPT !.stalled = TRUE]
         ELSE LET found == UNION {{t.analysis[i].findings[j] :
                                      j \in 1..Len(t.analysis[i].findings)} :
                                  i \in {i \in (st.na + 1)..(st.na + n) : t.analysis[i].ok}}
                  s1 == [st EXCEPT !.ns = @ + 1, !.na = @ + n,
                                   !.calls = @ \o <<"search">> \o [i \in 1..n |-> "analysis"],
                                   !.learnings = @ \cup found,
                                   !.visited_urls = @ \cup (IF n > 0 THEN {CannedUrl} ELSE {})]
              IN  IF t.search[st.ns + 1] = 0 THEN s1
                  ELSE IF ~(d > 1 /\ s1.learnings # {}) THEN s1
                  ELSE IF s1.nf >= Len(t.followup) THEN [s1 EXCEPT !.stalled = TRUE]
                  ELSE LET r == generate_followup_topics(t.followup[s1.nf + 1], b)
                           s2 == [s1 EXCEPT !.nf = @ + 1, !.calls = Append(@, "followup")]
                       IN  IF r.raised THEN s2
                           ELSE [s2 EXCEPT !.queue = @ \o
                                    [i \in 1..Cardinality(Launched(r.topics)) |->
                                        [depth |-> ChildDepth(d), breadth |-> ChildBreadth(b)]]]

\* The event loop: the coroutine at the front of the queue runs next.
RECURSIVE SerialChildren(_, _)
SerialChildren(t, st) ==
    IF st.queue = <<>> \/ st.stalled THEN st
    ELSE SerialChildren(t, SerialBranch(t, [st EXCEPT !.queue = Tail(@)],
                                        Head(st.queue).depth, Head(st.queue).breadth))

SerialRun(t, d, b) ==
    SerialChildren(t, [ns |-> 0, na |-> 0, nf |-> 0, calls |-> <<>>,
                       learnings |-> {}, visited_urls |-> {}, stalled |-> FALSE,
                       queue |-> <<[depth |-> d, breadth |-> b]>>])

(* ---------------------------- call_claude ----------------------------- *)

\* max_retries and retry_delay of call_claude
max_retries(v) == IF v = "async" THEN 3 ELSE 5
retry_delay(v) == IF v = "async" THEN 1 ELSE 2

\* What one attempt of self.client.messages.create comes to: the text of the
\* model, an exception whose message holds "rate_limit_error", or another
\* exception.
Outcomes == {"ok", "rate_limit_error", "error"}

\* A call that raises at its first failed attempt (a fault, to test C14).
IsLastAttemptAlways(v, attempt) == TRUE

\* not (attempt < max_retries - 1)
IsLastAttempt(v, attempt) == ~(attempt < max_retries(v) - 1)

\* The seconds call_claude sleeps after a failed attempt that is not the
\* last: retry_delay * (2 ** attempt); the "async" copy sleeps for a
\* rate-limit error only.
WaitTime(v, outcome, attempt) ==
    IF outcome = "rate_limit_error" \/ v = "threads"
    THEN retry_delay(v) * 2 ^ attempt
    ELSE 0

\* for attempt in range(max_retries), from attempt on; waits are the seconds
\* slept after the failed attempts so far.
RECURSIVE CallClaudeFrom(_, _, _, _)
CallClaudeFrom(v, outcomes, attempt, waits) ==
    LET outcome == outcomes[attempt + 1] IN
    IF outcome = "ok"
    THEN [attempts |-> attempt + 1, waits |-> waits, raised |-> FALSE, error |-> "none"]
    ELSE IF ~IsLastAttempt(v, attempt)
    THEN CallClaudeFrom(v, outcomes, attempt + 1,
                        Append(waits, WaitTime(v, outcome, attempt)))
    ELSE [attempts |-> attempt + 1, waits |-> waits, raised |-> TRUE, error |-> outcome]

\* call_claude, when the attempts of the service call come to outcomes:
\* the number of attempts made, the sleeps between them, and whether the call
\* returns the text of its last attempt or raises that attempt's error.
call_claude(v, outcomes) == CallClaudeFrom(v, outcomes, 0, <<>>)

(* --------------------- call_claude: chat contexts --------------------- *)

\* A prompt is a text of len characters; of a text, the prefix of k
\* characters is named by the text and k.
Prompts == {[text |-> "p1", len |-> 20], [text |-> "p2", len |-> 51]}

PreviewLen == 50

\* prompt[:50] + "..."
Preview(prompt) ==
    [of |-> prompt.text, chars |-> Min(PreviewLen, prompt.len), suffix |-> "..."]

\* {"role": role, "content": content}; "reply" is response.content[0].text
Message(role, content) == [role |-> role, content |-> content]

\* The context_id argument: None, or an id.
NoContext == "None"
ContextIds == {"c1", "c2"}

\* self.status_callback(kind, data), when one is registered
Emit(callback, kind, data) ==
    IF callback = "none" THEN <<>> ELSE <<[kind |-> kind, data |-> data]>>

\* A request that leaves the earlier turns out (a fault, to test C22).
TurnsPromptOnly(history, prompt) == <<Message("user", prompt)>>

\* context.messages.append({"role": "user", "content": prompt})
Turns(history, prompt) == Append(history, Message("user", prompt))

\* A registration that is forgotten (a fault, to test C34).
RegisterNothing(contexts, context_id, messages) == contexts

\* self.chat_contexts[context_id] = new_context
Register(contexts, context_id, messages) ==
    [c \in DOMAIN contexts \cup {context_id} |->
        IF c = context_id THEN messages ELSE contexts[c]]

\* self.client.messages.create(messages=messages)
Request(messages) == [kind |-> "request", messages |-> messages]

\* call_claude(prompt, context_id) from attempt on.  st.chat_contexts is
\* self.chat_contexts, st.trace the events emitted and the requests sent to
\* the model so far, in their order.  The callback runs inside the try: an
\* exception it raises fails the attempt before the context is touched.  A
\* registered context gets the prompt appended at every attempt, before the
\* request, and the reply after it; an id that is not registered gets a new
\* context, registered after the reply.
RECURSIVE CallClaudeOn(_, _, _, _, _, _, _)
CallClaudeOn(v, callback, prompt, context_id, outcomes, attempt, st) ==
    LET known == context_id # NoContext /\ context_id \in DOMAIN st.chat_contexts
        event == Emit(callback, "claude_call", Preview(prompt))
        messages == IF known
                    THEN Turns(st.chat_contexts[context_id], prompt)
                    ELSE <<Message("user", prompt)>>
        asked == [chat_contexts |-> IF known
                                    THEN [st.chat_contexts EXCEPT ![context_id] = messages]
                                    ELSE st.chat_contexts,
                  trace |-> st.trace \o event \o <<Request(messages)>>]
        failed == IF callback = "raises"
                  THEN [st EXCEPT !.trace = @ \o event]
                  ELSE asked
        error == IF callback = "raises" THEN "callback" ELSE outcomes[attempt + 1]
        replied == Append(messages, Message("assistant", "reply"))
    IN
    IF callback # "raises" /\ outcomes[attempt + 1] = "ok"
    THEN [attempts |-> attempt + 1, raised |-> FALSE,
          chat_contexts |->
              IF known THEN [asked.chat_contexts EXCEPT ![context_id] = replied]
              ELSE IF context_id # NoContext
              THEN Register(asked.chat_contexts, context_id, replied)
              ELSE asked.chat_contexts,
          trace |-> asked.trace]
    ELSE IF ~IsLastAttempt(v, attempt)
    THEN CallClaudeOn(v, callback, prompt, context_id, outcomes, attempt + 1,
                      [failed EXCEPT !.trace = @ \o
                          IF v = "threads" /\ error = "rate_limit_error"
                          THEN Emit(callback, "rate_limit", WaitTime(v, error, attempt))
                          ELSE <<>>])
    ELSE [attempts |-> attempt + 1, raised |-> TRUE,
          chat_contexts |-> failed.chat_contexts, trace |-> failed.trace]

\* call_claude on an agent whose chat_contexts is contexts.
call_claude_on(v, callback, contexts, prompt, context_id, outcomes) ==
    CallClaudeOn(v, callback, prompt, context_id, outcomes, 0,
                 [chat_contexts |-> contexts, trace |-> <<>>])

(* ----------------------------- fire_crawl ----------------------------- *)

\* What one attempt of the search comes to:
\*   "data"        a response that holds a list of items (items[i]: a
\*                 "page", an "empty" one or an "other": for the "async"
\*                 copy, which reads item.title, a value without these
\*                 attributes); the list may be empty
\*   "nodata"      a response without data
\*   "shape"       a success status whose body is a JSON value that is not an
\*                 object
\*   "rate_limit"  status 429
\*   "status"      another non-success status
\*   "network"     the request fails (requests.exceptions.RequestException)
\* The client of the "async" copy, FirecrawlApp.search, raises an exception
\* for the last four.
SearchFailures == {"rate_limit", "status", "network"}

SearchOutcome(kind, items) == [kind |-> kind, items |-> items]

SearchAnswers ==
    {SearchOutcome("data", i) :
        i \in UNION {[1..k -> {"page", "empty", "other"}] : k \in 0..SearchLimit}}
    \cup {SearchOutcome("nodata", <<>>), SearchOutcome("shape", <<>>)}

\* The result fire_crawl makes up: "Using Claude's knowledge", with a
\* markdown that says that no live web search was used.
SyntheticResult == [synthetic |-> TRUE, object |-> TRUE, content |-> TRUE]

\* The attempts fire_crawl makes at most, and its first delay: the "async"
\* copy has no retry loop.
fire_crawl_max_retries(v) == IF v = "async" THEN 1 ELSE 5
fire_crawl_retry_delay(v) == 2

\* Results that keep an empty markdown in both copies (a fault, to test C27).
SearchResultsRaw(v, items) ==
    [i \in 1..Len(items) |->
        [synthetic |-> FALSE, object |-> items[i] # "other", content |-> items[i] = "page"]]

\* The results of an answer with data: the "async" copy fills an empty
\* markdown in ("No content extracted from ..."), the "threads" copy returns
\* the items as they are (object: the result is a dict).  In the "async"
\* copy an item without the attributes the loop reads takes fire_crawl to
\* its except clause.
SearchResults(v, items) ==
    [i \in 1..Len(items) |->
        [synthetic |-> FALSE, object |-> items[i] # "other",
         content |-> (v = "async" /\ items[i] # "other") \/ items[i] = "page"]]

\* fire_crawl from attempt on: the attempts made, the seconds slept after the
\* failed ones, and the list returned (fallback: it is not the service's) or
\* raised = an exception leaves fire_crawl.
RECURSIVE FireCrawlFrom(_, _, _, _)
FireCrawlFrom(v, outcomes, attempt, waits) ==
    LET o == outcomes[attempt + 1]
        Returns(results, fallback) ==
            [attempts |-> attempt + 1, waits |-> waits, raised |-> FALSE,
             results |-> results, fallback |-> fallback]
    IN
    IF v = "async"
    THEN IF /\ o.kind = "data" /\ o.items # <<>>
            /\ \A i \in 1..Len(o.items) : o.items[i] # "other"
         THEN Returns(SearchResults(v, o.items), FALSE)
         ELSE Returns(<<SyntheticResult>>, TRUE)
    ELSE IF o.kind = "data" THEN Returns(SearchResults(v, o.items), FALSE)
    ELSE IF o.kind = "nodata" THEN Returns(<<>>, FALSE)
    ELSE IF o.kind = "shape"
    THEN [attempts |-> attempt + 1, waits |-> waits, raised |-> TRUE,
          results |-> <<>>, fallback |-> FALSE]
    ELSE IF attempt < fire_crawl_max_retries(v) - 1
    THEN FireCrawlFrom(v, outcomes, attempt + 1,
                       Append(waits, fire_crawl_retry_delay(v) * 2 ^ attempt))
    ELSE Returns(<<>>, TRUE)

fire_crawl(v, outcomes) == FireCrawlFrom(v, outcomes, 0, <<>>)

\* The request of an attempt: self.firecrawlapp.search(...), requests.post(...)
Search(attempt) == [kind |-> "search", data |-> attempt]

\* fire_crawl with the status callback given, from attempt on: as
\* FireCrawlFrom, with st.trace the events emitted and the requests sent so
\* far, in their order.  Both copies emit firecrawl_call inside the try,
\* before the request.  In the "async" copy every exception, the callback's
\* included, comes to the except clause, which emits rate_limit before it
\* returns the synthetic result ("Search error: ..."); the branch of a
\* response without data (response.data None or empty) emits rate_limit too
\* ("No search results found. ...").  An exception of the callback there
\* leaves fire_crawl.  The "threads" copy catches
\* RequestException only, and emits rate_limit for a status 429 that it
\* retries.
RECURSIVE FireCrawlOn(_, _, _, _, _)
FireCrawlOn(v, callback, outcomes, attempt, st) ==
    LET o == outcomes[attempt + 1]
        calling == st.trace \o Emit(callback, "firecrawl_call", "query")
        asked == calling \o <<Search(attempt)>>
        Returns(results, fallback, trace) ==
            [attempts |-> attempt + 1, waits |-> st.waits, raised |-> FALSE,
             results |-> results, fallback |-> fallback, trace |-> trace]
        Raises(attempts, trace) ==
            [attempts |-> attempts, waits |-> st.waits, raised |-> TRUE,
             results |-> <<>>, fallback |-> FALSE, trace |-> trace]
    IN
    IF v = "async"
    THEN IF callback = "raises"
         THEN Raises(attempt, calling \o Emit(callback, "rate_limit", "error"))
         ELSE IF /\ o.kind = "data" /\ o.items # <<>>
                 /\ \A i \in 1..Len(o.items) : o.items[i] # "other"
         THEN Returns(SearchResults(v, o.items), FALSE, asked)
         ELSE Returns(<<SyntheticResult>>, TRUE,
                      asked \o Emit(callback, "rate_limit",
                                    IF o.kind = "nodata" \/ (o.kind = "data" /\ o.items = <<>>)
                                    THEN "no results" ELSE "error"))
    ELSE IF callback = "raises" THEN Raises(attempt, calling)
    ELSE IF o.kind = "data" THEN Returns(SearchResults(v, o.items), FALSE, asked)
    ELSE IF o.kind = "nodata" THEN Returns(<<>>, FALSE, asked)
    ELSE IF o.kind = "shape" THEN Raises(attempt + 1, asked)
    ELSE IF attempt < fire_crawl_max_retries(v) - 1
    THEN LET wait_time == fire_crawl_retry_delay(v) * 2 ^ attempt IN
         FireCrawlOn(v, callback, outcomes, attempt + 1,
                     [waits |-> Append(st.waits, wait_time),
                      trace |-> asked \o IF o.kind = "rate_limit"
                                         THEN Emit(callback, "rate_limit", wait_time)
                                         ELSE <<>>])
    ELSE Returns(<<>>, TRUE, asked)

fire_crawl_on(v, callback, outcomes) ==
    FireCrawlOn(v, callback, outcomes, 0, [waits |-> <<>>, trace |-> <<>>])

\* What the attempts of a search can come to, one after the other: failures,
\* and an answer unless every attempt fails.
SearchBehaviours(v) ==
    LET n == fire_crawl_max_retries(v)
        Fail(f) == [i \in 1..Len(f) |-> SearchOutcome(f[i], <<>>)]
    IN  {Fail(f) : f \in [1..n -> SearchFailures]}
        \cup {Append(Fail(f), a) :
                 f \in UNION {[1..k -> SearchFailures] : k \in 0..(n - 1)},
                 a \in SearchAnswers}

(* --------------------------- simple_research -------------------------- *)

\* What simple_research returns: the model's answer to the prompt it was
\* asked ("query": from the query alone; "materials": a summary of the
\* sources' content) with a disclaimer or a Sources section after it, or a
\* fixed text of its own (asked = "none"); or an exception leaves it.
Document(asked, answered, disclaimer, sources) ==
    [raised |-> FALSE, asked |-> asked, answered |-> answered,
     disclaimer |-> disclaimer, sources |-> sources]

Raised == [raised |-> TRUE, asked |-> "none", answered |-> FALSE,
           disclaimer |-> FALSE, sources |-> FALSE]

\* response = self.call_claude(prompt); return response + tail
Ask(v, asked, model, disclaimer, sources) ==
    IF call_claude(v, model).raised
    THEN [Raised EXCEPT !.asked = asked]
    ELSE Document(asked, TRUE, disclaimer, sources)

\* simple_research, when the attempts of the search come to the outcomes
\* search and those of the model call to the outcomes model.  result.get of
\* a result that is not a dict raises, in a loop that stands in no try.
simple_research(v, search, model) ==
    LET found == fire_crawl(v, search)
        content == \E i \in 1..Len(found.results) : found.results[i].content
    IN
    IF found.raised THEN Raised
    ELSE IF \E i \in 1..Len(found.results) : ~found.results[i].object THEN Raised
    ELSE IF v = "async"
    THEN IF found.results = <<>> \/ ~content
         THEN Ask(v, "query", model, TRUE, FALSE)
         ELSE Ask(v, "materials", model, FALSE, TRUE)
    ELSE IF ~content
         THEN Document("none", FALSE, FALSE, FALSE)
         ELSE Ask(v, "materials", model, FALSE, TRUE)

(* -------------------------- extract_learnings ------------------------- *)

\* A text is a sequence of characters.
Chars == {"*", "-", " ", "a", "b", "\n"}
CharTexts(n) == UNION {[1..k -> Chars] : k \in 0..n}

Whitespace == {" ", "\n"}

\* content.split('\n')
RECURSIVE Split(_)
Split(s) ==
    LET nl == {i \in 1..Len(s) : s[i] = "\n"} IN
    IF nl = {} THEN <<s>>
    ELSE LET i == CHOOSE i \in nl : \A j \in nl : i <= j
         IN  <<SubSeq(s, 1, i - 1)>> \o Split(SubSeq(s, i + 1, Len(s)))

\* s.lstrip(chars): s without its leading characters that are in chars
LStrip(s, chars) ==
    LET keep == {i \in 1..Len(s) : s[i] \notin chars} IN
    IF keep = {} THEN <<>>
    ELSE SubSeq(s, CHOOSE i \in keep : \A j \in keep : i <= j, Len(s))

\* s.strip()
Strip(s) ==
    LET keep == {i \in 1..Len(s) : s[i] \notin Whitespace} IN
    IF keep = {} THEN <<>>
    ELSE SubSeq(s, CHOOSE i \in keep : \A j \in keep : i <= j,
                   CHOOSE i \in keep : \A j \in keep : i >= j)

\* line.startswith('*') or line.startswith('-')
StartsWithMarker(line) == line # <<>> /\ line[1] \in {"*", "-"}

\* The body of the loop: what a line adds to learnings.
LearningsOf(l) ==
    LET line == Strip(l)
        learning == Strip(LStrip(line, {"*", "-", " "}))
    IN  IF StartsWithMarker(line) /\ learning # <<>> THEN <<learning>> ELSE <<>>

\* for line in content.split('\n'): ...
RECURSIVE LearningsOfLines(_)
LearningsOfLines(lines) ==
    IF lines = <<>> THEN <<>>
    ELSE LearningsOf(Head(lines)) \o LearningsOfLines(Tail(lines))

extract_learnings(content) == LearningsOfLines(Split(content))

(* ------------------------ generate_final_report ----------------------- *)

\* The visited_urls of the ResearchResult a report is made of: the lists of at
\* most MaxUrls URLs, in the order stored (a list may hold a URL twice).
ReportUrls == {"u1", "u2"}
UrlLists == UNION {[1..k -> ReportUrls] : k \in 0..MaxUrls}

\* The ResearchResults handed to generate_final_report.
ResearchResults ==
    [learnings : {<<>>, <<"f1">>, <<"f1", "f2">>}, visited_urls : UrlLists]

\* sep.join(parts); a text is the sequence of its pieces.
RECURSIVE Join(_, _)
Join(parts, sep) ==
    IF parts = <<>> THEN <<>>
    ELSE IF Len(parts) = 1 THEN parts[1]
    ELSE parts[1] \o <<sep>> \o Join(Tail(parts), sep)

\* A listing that names the first URL only (a fault, to test C21).
SourceLinesFirst(urls) == [i \in 1..Min(1, Len(urls)) |-> <<"- ", urls[i]>>]

\* f"- {url}" for url in results.visited_urls
SourceLines(urls) == [i \in 1..Len(urls) |-> <<"- ", urls[i]>>]

\* "\n\n## Sources\n\n" + "\n".join(...)
SourcesSection(urls) == <<"\n\n## Sources\n\n">> \o Join(SourceLines(urls), "\n")

\* generate_final_report(query, results), when the attempts of its model
\* call come to the outcomes model: the generating_report event, one
\* call_claude call ("report" is the text it returns), and the Sources
\* section after the text.  results is read only.
generate_final_report(v, callback, results, model) ==
    IF callback = "raises"
    THEN [raised |-> TRUE, calls |-> 0, report |-> <<>>, results |-> results]
    ELSE IF call_claude(v, model).raised
    THEN [raised |-> TRUE, calls |-> 1, report |-> <<>>, results |-> results]
    ELSE [raised |-> FALSE, calls |-> 1,
          report |-> <<"report">> \o SourcesSection(results.visited_urls),
          results |-> results]

(* -------------------- the agent's other methods ----------------------- *)

\* The calls of generate_followup_topics: the response call_claude gives it
\* and num_topics, which research_topic takes from its breadth (the root's
\* from its caller, see RootCalls).
FollowupTopicsCalls ==
    {[fn |-> "generate_followup_topics", response |-> t, num_topics |-> n, done |-> FALSE] :
        t \in Texts(MaxBreadth + 1), n \in -1..MaxBreadth}

\* The calls of call_claude: what each attempt of the service call would come
\* to.
ClaudeCalls(v) ==
    {[fn |-> "call_claude", outcomes |-> o, done |-> FALSE] :
        o \in [1..max_retries(v) -> Outcomes]}

\* The calls of fire_crawl.
FireCrawlCalls(v) ==
    {[fn |-> "fire_crawl", outcomes |-> o, done |-> FALSE] : o \in SearchBehaviours(v)}

\* The calls of simple_research: the outcomes of its search, and a model
\* that answers at once, at its second attempt, or never.
SimpleResearchCalls(v) ==
    {[fn |-> "simple_research", search |-> o, model |-> m, done |-> FALSE] :
        o \in SearchBehaviours(v),
        m \in {[i \in 1..max_retries(v) |-> "ok"],
               [i \in 1..max_retries(v) |-> IF i = 1 THEN "rate_limit_error" ELSE "ok"],
               [i \in 1..max_retries(v) |-> "error"]}}

\* The calls of extract_learnings: the texts of at most MaxLen characters.
ExtractCalls ==
    {[fn |-> "extract_learnings", content |-> c, done |-> FALSE] : c \in CharTexts(MaxLen)}

\* A model that answers at once, at its second attempt, or never.
ModelBehaviours(v) ==
    {[i \in 1..max_retries(v) |-> "ok"],
     [i \in 1..max_retries(v) |-> IF i = 1 THEN "rate_limit_error" ELSE "ok"],
     [i \in 1..max_retries(v) |-> "error"]}

\* The calls of generate_final_report.
FinalReportCalls(v) ==
    {[fn |-> "generate_final_report", results |-> r, model |-> m, done |-> FALSE] :
        r \in ResearchResults, m \in ModelBehaviours(v)}

\* A model that answers at once, after one failed attempt, or never.
ChatBehaviours(v) ==
    ModelBehaviours(v) \cup {[i \in 1..max_retries(v) |-> IF i = 1 THEN "error" ELSE "ok"]}

\* A conversation: at most MaxCalls calls of call_claude, one after the other,
\* on an agent that starts with no chat context.  n counts the calls made,
\* submitted those made with each context id, and last holds the arguments of
\* the last call, chat_contexts as it found them (before) and its outcome.
Conversations ==
    {[fn |-> "conversation", chat_contexts |-> <<>>, n |-> 0,
      submitted |-> [i \in ContextIds |-> 0], last |-> <<>>, done |-> FALSE]}

ClientCalls(v) ==
    Conversations \cup FollowupTopicsCalls \cup ClaudeCalls(v) \cup FireCrawlCalls(v) \cup SimpleResearchCalls(v)
        \cup ExtractCalls \cup FinalReportCalls(v)

\* A call of one method of an agent on which no research_topic runs.
ClientInit ==
    /\ variant \in Variants
    /\ given = [passed |-> FALSE, learnings |-> EmptyList(Findings),
                visited_urls |-> EmptyList(Urls)]
    /\ br = (Root :> NewBranch(0, 1))
    /\ learnings = given.learnings
    /\ visited_urls = given.visited_urls
    /\ running = NoBranch
    /\ appended = [learnings |-> {}, visited_urls |-> {}, work |-> 0]
    /\ used = [search |-> FALSE, model |-> FALSE, events |-> FALSE]
    /\ canned = NoCanned
    /\ call \in ClientCalls(variant)
    /\ status_callback \in IF call.fn \in {"conversation", "generate_final_report", "fire_crawl"}
                          THEN Callbacks ELSE {"none"}

\* The call returns or raises: out is its outcome.
Return(out) ==
    /\ call' = [x \in DOMAIN call \cup {"out"} |->
                  IF x = "out" THEN out ELSE IF x = "done" THEN TRUE ELSE call[x]]
    /\ UNCHANGED <<variant, status_callback, research>>

FollowupTopicsCall ==
    /\ call.fn = "generate_followup_topics" /\ ~call.done
    /\ Return(generate_followup_topics(call.response, call.num_topics))

ClaudeCall ==
    /\ call.fn = "call_claude" /\ ~call.done
    /\ Return(call_claude(variant, call.outcomes))

FireCrawlCall ==
    /\ call.fn = "fire_crawl" /\ ~call.done
    /\ Return(fire_crawl_on(variant, status_callback, call.outcomes))

SimpleResearchCall ==
    /\ call.fn = "simple_research" /\ ~call.done
    /\ Return(simple_research(variant, call.search, call.model))

ExtractCall ==
    /\ call.fn = "extract_learnings" /\ ~call.done
    /\ Return(extract_learnings(call.content))

FinalReportCall ==
    /\ call.fn = "generate_final_report" /\ ~call.done
    /\ Return(generate_final_report(variant, status_callback, call.results, call.model))

\* The next call_claude(prompt, context_id) of the conversation.
ClaudeCallOn ==
    /\ call.fn = "conversation" /\ call.n < MaxCalls
    /\ \E prompt \in Prompts, context_id \in ContextIds \cup {NoContext},
          outcomes \in ChatBehaviours(variant) :
         call' = [call EXCEPT
            !.n = @ + 1,
            !.done = (call.n + 1 = MaxCalls),
            !.submitted = IF context_id = NoContext THEN @
                          ELSE [@ EXCEPT ![context_id] = @ + 1],
            !.chat_contexts = call_claude_on(variant, status_callback, call.chat_contexts,
                                             prompt, context_id, outcomes).chat_contexts,
            !.last = [prompt |-> prompt, context_id |-> context_id, outcomes |-> outcomes,
                      before |-> call.chat_contexts,
                      out |-> call_claude_on(variant, status_callback, call.chat_contexts,
                                             prompt, context_id, outcomes)]]
    /\ UNCHANGED <<variant, status_callback, research>>

ClientNext ==
    \/ ClaudeCallOn
    \/ FollowupTopicsCall
    \/ ClaudeCall
    \/ FireCrawlCall
    \/ SimpleResearchCall
    \/ ExtractCall
    \/ FinalReportCall

ClientSpec == ClientInit /\ [][ClientNext]_vars

\* Every service call returns and every runnable thread or coroutine is
\* eventually run.
FairSpec == Spec /\ WF_vars(Next)

(* ------------------------------ claims -------------------------------- *)

AllDone == \A p \in DOMAIN br : br[p].pc \in Final

InFlight == {p \in DOMAIN br \ {Root} : br[p].pc \notin Final \cup {"queued"}}

\* C1: a root call with depth <= 0 leaves learnings and visited_urls as they
\* were given, makes no search call and no model call, emits no progress
\* event, launches no branch, and returns.
C1_BaseCaseNoEffect ==
    br[Root].depth <= 0 =>
        /\ learnings = given.learnings
        /\ visited_urls = given.visited_urls
        /\ used = [search |-> FALSE, model |-> FALSE, events |-> FALSE]
        /\ DOMAIN br = {Root}
        /\ br[Root].pc \in {"queued", "returned"}

C1_Witness ==
    /\ br[Root].depth <= 0 /\ br[Root].pc = "returned"
    /\ given.passed /\ ~NoDuplicates(learnings)

\* C2: when a root call that started with an empty accumulator and depth >= 1
\* has returned, neither learnings nor visited_urls holds a string twice.
C2_NoDuplicatesAtReturn ==
    (~given.passed /\ br[Root].depth >= 1 /\ br[Root].pc = "returned") =>
        NoDuplicates(learnings) /\ NoDuplicates(visited_urls)

\* A run of the "threads" copy in which the two follow-up branches were in
\* flight together (both had searched before either asked for its analysis)
\* and wrote findings the list held already: the root had put f1 in, one
\* branch added f2 and its sibling f1 and f2.
C2_Witness ==
    /\ variant = "threads" /\ ~given.passed /\ br[Root].pc = "returned"
    /\ Cardinality(Children(Root)) = 2
    /\ \A p \in Children(Root) : br[p].pc = "returned"
    /\ canned.analysis = <<[ok |-> TRUE, findings |-> <<"f1">>],
                           [ok |-> TRUE, findings |-> <<"f2">>],
                           [ok |-> TRUE, findings |-> <<"f1", "f2">>]>>
    /\ canned.calls = <<"search", "analysis", "followup",
                        "search", "search", "analysis", "analysis">>
    /\ Elements(learnings) = Findings /\ Elements(visited_urls) = Urls

\* Every follow-up branch has its parent's depth less one, and no branch lies
\* more than D levels deep in a run started with depth D (the root is level 1).
DepthDecreases ==
    \A p \in DOMAIN br \ {Root} :
        /\ br[p].depth = br[Parent(p)].depth - 1
        /\ br[p].depth = br[Root].depth - Len(p)
        /\ br[p].depth >= 1
        /\ Len(p) + 1 <= br[Root].depth

\* C3: every recursive call receives its parent's depth less one, so a run
\* started with depth D has no branch more than D levels deep, and the run
\* terminates: every branch of the call tree finishes.
C3_DepthBoundedTermination == []DepthDecreases /\ <>[]AllDone

C3_Witness ==
    /\ AllDone /\ br[Root].depth = MaxDepth
    /\ \E p \in DOMAIN br : Len(p) + 1 = MaxDepth
    /\ Cardinality(Children(Root)) >= 2

\* C4: every follow-up branch runs with breadth max(1, b - 1) of its parent's
\* breadth b: never more than b, and 1 (never 0) when b is 1.
C4_ChildBreadth ==
    \A p \in DOMAIN br \ {Root} :
        LET pb == br[Parent(p)].breadth
            cb == br[p].breadth
        IN  /\ cb >= 1 /\ cb <= pb
            /\ pb = 1 => cb = 1
            /\ pb > 1 => cb = pb - 1

\* C5: a branch that returns after the processing of one of its results
\* failed has gone through all its results, and learnings then holds every
\* finding the branch extracted from the others.
C5_PerItemIsolation ==
    \A p \in DOMAIN br :
        br[p].pc = "returned" => br[p].skipped = 0 /\ br[p].missing = {}

\* C6: when a follow-up branch has failed, its parent does not fail: the
\* siblings run to completion and the parent returns the accumulator.
C6_BranchIsolation ==
    \A p \in DOMAIN br :
        GatherFailed(p) =>
            /\ br[p].pc # "raised"
            /\ br[p].pc = "returned" => \A c \in Children(p) : br[c].pc \in Final

\* C7: a branch that launched follow-up branches is at its final
\* deduplication or has returned only when every branch of its sub-tree has
\* completed.
C7_JoinBeforeDedup ==
    \A p \in DOMAIN br :
        br[p].pc \in Deduplicating \cup {"returned"} =>
            \A c \in Descendants(p) : br[c].pc \in Final

C7_Witness ==
    \E p \in DOMAIN br :
        /\ br[p].pc \in Deduplicating
        /\ Cardinality(Children(p)) >= 2
        /\ \E c \in Children(p) : br[c].nres = 0 /\ Children(c) # {}

\* C8: when the root call has returned, learnings holds every finding and
\* visited_urls every URL that a branch appended during the run.
C8_NothingLost ==
    br[Root].pc = "returned" =>
        /\ appended.learnings \subseteq Elements(learnings)
        /\ appended.visited_urls \subseteq Elements(visited_urls)

\* C9: at most max_concurrent follow-up branches of the call tree are
\* started and not yet finished.
C9_AtMostMaxConcurrentInFlight == Cardinality(InFlight) <= MaxConcurrent

\* C10: only the root call replaces learnings and visited_urls by their
\* deduplication, and only when every other branch has finished.
C10_DedupOnlyAtTopAfterJoin ==
    \A p \in DOMAIN br :
        br[p].pc \in Deduplicating =>
            p = Root /\ \A q \in DOMAIN br \ {Root} : br[q].pc \in Final

\* The list the model returned holds an object without 'query' or without
\* 'research_goal'.
LacksKey(response) ==
    /\ response.kind = "list"
    /\ \E i \in 1..Len(response.entries) :
         IsObject(response.entries[i]) /\ ~HasKeys(response.entries[i])

\* C11: when the response to a branch's follow-up prompt holds an entry
\* without 'query' or without 'research_goal', generate_followup_topics
\* returns the empty list, and the branch launches no follow-up branch and
\* goes on to its final deduplication and its return.
C11_RejectWholeBatch ==
    (canned.nf = 1 /\ LacksKey(canned.followup[1]) /\ br[Root].pc # "followup") =>
        /\ generate_followup_topics(canned.followup[1], br[Root].breadth)
               = [raised |-> FALSE, topics |-> <<>>]
        /\ Children(Root) = {}
        /\ br[Root].pc \in Deduplicating \cup {"returned"}

\* The text is not a JSON list of objects that all have both keys.
Malformed(response) ==
    \/ response.kind # "list"
    \/ \E i \in 1..Len(response.entries) :
         ~(IsObject(response.entries[i]) /\ HasKeys(response.entries[i]))

\* C12: for every text of the model that is not a JSON list of objects with
\* 'query' and 'research_goal', generate_followup_topics returns the empty
\* list and raises nothing.
C12_MalformedGivesEmptyList ==
    (call.fn = "generate_followup_topics" /\ call.done /\ Malformed(call.response)) =>
        call.out = [raised |-> FALSE, topics |-> <<>>]

\* C13: generate_followup_topics returns at most num_topics entries, and of
\* a list of more than num_topics well-formed entries it returns the first
\* num_topics, in the order of the response.
C13_AtMostNumTopics ==
    (call.fn = "generate_followup_topics" /\ call.done /\ ~call.out.raised) =>
        /\ Len(call.out.topics) <= call.num_topics
        /\ (~Malformed(call.response) /\ Len(call.response.entries) > call.num_topics) =>
              /\ Len(call.out.topics) = call.num_topics
              /\ \A i \in 1..call.num_topics : call.out.topics[i] = call.response.entries[i]

\* C14: call_claude makes at most max_retries attempts (3 in
\* src/research/research_agent.py, 5 in src/research_agent.py); it returns
\* at the first attempt that succeeds and makes no attempt after it; and it
\* raises exactly when every attempt fails, and then the error of the last
\* attempt.
C14_BoundedAttempts ==
    (call.fn = "call_claude" /\ call.done) =>
        LET ceiling == IF variant = "async" THEN 3 ELSE 5
            out == call.out
        IN  /\ out.attempts \in 1..ceiling
            /\ \A i \in 1..(out.attempts - 1) : call.outcomes[i] # "ok"
            /\ ~out.raised => call.outcomes[out.attempts] = "ok"
            /\ out.raised <=> \A i \in 1..ceiling : call.outcomes[i] # "ok"
            /\ out.raised => out.attempts = ceiling /\ out.error = call.outcomes[ceiling]

C14_Witness ==
    /\ call.fn = "call_claude" /\ call.done
    /\ call.out.raised /\ call.out.attempts = 5
    /\ call.outcomes[1] = "rate_limit_error" /\ call.out.error = "error"

\* C15: after its k-th failed attempt, k below the ceiling, call_claude
\* sleeps retry_delay * 2^(k-1) seconds before the next attempt, whether the
\* failure is a rate-limit error or another error.
C15_DoublingDelay ==
    (call.fn = "call_claude" /\ call.done) =>
        /\ Len(call.out.waits) = call.out.attempts - 1
        /\ \A k \in 1..Len(call.out.waits) :
              call.out.waits[k] = retry_delay(variant) * 2 ^ (k - 1)

\* The last attempt of the search did not come to a list with an item in it.
NoLiveData(outcomes, attempts) ==
    ~(outcomes[attempts].kind = "data" /\ outcomes[attempts].items # <<>>)

\* C16: fire_crawl raises nothing, and when the search fails or yields no
\* data it returns a list of exactly one result, the synthetic one that says
\* that no live data was available.
C16_FallbackNeverRaises ==
    (call.fn = "fire_crawl" /\ call.done) =>
        /\ ~call.out.raised
        /\ NoLiveData(call.outcomes, call.out.attempts) =>
              call.out.results = <<SyntheticResult>>

\* C17: after a failed attempt of the search (network error or non-success
\* status) fire_crawl tries again under call_claude's policy, the k-th
\* failure being followed by a sleep of retry_delay * 2^(k-1) seconds, and
\* it falls back only after max_retries attempts.
C17_SearchRetries ==
    (call.fn = "fire_crawl" /\ call.done) =>
        LET out == call.out IN
        /\ Len(out.waits) = out.attempts - 1
        /\ \A k \in 1..Len(out.waits) : out.waits[k] = retry_delay(variant) * 2 ^ (k - 1)
        /\ \A k \in 1..(max_retries(variant) - 1) :
              (k <= Len(call.outcomes) /\ call.outcomes[k].kind \in SearchFailures)
                  => out.attempts > k
        /\ (out.fallback /\ call.outcomes[out.attempts].kind \in SearchFailures)
              => out.attempts = max_retries(variant)

\* The search yields no result, or only results without content: its last
\* attempt fails, or comes to no data, or to items none of which has a
\* markdown.
NothingFound(search) ==
    LET last == search[Len(search)] IN
    \/ last.kind \in SearchFailures \cup {"nodata"}
    \/ last.kind = "data" /\ \A i \in 1..Len(last.items) : last.items[i] = "empty"

\* C18: when the search yields no result, or only results without content,
\* and the model answers, simple_research returns the model's answer from
\* the query alone, followed by the disclaimer that no live search was used
\* and by no Sources section.
C18_ModelOnlyFallback ==
    (/\ call.fn = "simple_research" /\ call.done
     /\ NothingFound(call.search)
     /\ ~call_claude(variant, call.model).raised) =>
        call.out = Document("query", TRUE, TRUE, FALSE)

\* The line, trimmed, begins with '*' or '-' and is not empty once that
\* marker is stripped.
Qualifies(l) ==
    LET line == Strip(l) IN StartsWithMarker(line) /\ Strip(Tail(line)) # <<>>

IsSuffix(s, t) == Len(s) <= Len(t) /\ s = SubSeq(t, Len(t) - Len(s) + 1, Len(t))

\* C20: extract_learnings returns one entry for each line that, trimmed,
\* begins with '*' or '-' and is not empty once the marker is stripped, in
\* the order of the lines, and nothing for the other lines; it returns for
\* every text.
C20_OneEntryPerBulletLine ==
    (call.fn = "extract_learnings" /\ call.done) =>
        LET bullets == SelectSeq(Split(call.content), Qualifies) IN
        /\ Len(call.out) = Len(bullets)
        /\ \A i \in 1..Len(bullets) : IsSuffix(call.out[i], Strip(bullets[i]))

\* C19: a run of research_topic(depth=2, breadth=2) whose branches are
\* executed one at a time (the coroutines of the "async" copy) returns the
\* learnings and the visited URLs that the canned responses determine: the
\* sets SerialRun computes from them, whichever branch the event loop runs
\* first.  Two runs fed the same canned responses so return the same sets.
C19_SerialRunsAgree ==
    (variant = "async" /\ br[Root].depth = 2 /\ br[Root].breadth = 2
                       /\ br[Root].pc = "returned") =>
        LET expected == SerialRun(canned, br[Root].depth, br[Root].breadth) IN
        /\ ~expected.stalled
        /\ Elements(learnings) = expected.learnings
        /\ Elements(visited_urls) = expected.visited_urls

C19_Witness ==
    /\ variant = "async" /\ br[Root].pc = "returned"
    /\ br[Root].depth = 2 /\ br[Root].breadth = 2
    /\ Cardinality(Children(Root)) = 2
    /\ canned.analysis[1] = [ok |-> TRUE, findings |-> <<"f1">>]
    /\ canned.analysis[2] = [ok |-> FALSE, findings |-> <<>>]
    /\ canned.analysis[3] = [ok |-> TRUE, findings |-> <<"f2">>]
    /\ Elements(learnings) = Findings

\* C21: generate_final_report makes one call_claude call and returns the
\* model's text followed by the Sources section, which lists every element
\* of results.visited_urls once, one per line, in the order stored; the
\* ResearchResult is left as it was.
C21_ReportListsSources ==
    (call.fn = "generate_final_report" /\ call.done /\ ~call.out.raised) =>
        LET urls == call.results.visited_urls
            doc == call.out.report
            listing == SubSeq(doc, 3, Len(doc))
            lines == Split(listing)
        IN  /\ call.out.calls = 1
            /\ Len(doc) >= 2 /\ doc[1] = "report" /\ doc[2] = "\n\n## Sources\n\n"
            /\ IF urls = <<>> THEN listing = <<>>
               ELSE /\ Len(lines) = Len(urls)
                    /\ \A i \in 1..Len(urls) : lines[i] = <<"- ", urls[i]>>
            /\ call.out.results = call.results

C21_Witness ==
    /\ call.fn = "generate_final_report" /\ call.done /\ ~call.out.raised
    /\ call.results.visited_urls = <<"u2", "u1", "u2">>
    /\ status_callback = "returns"

\* The requests sent to the model during the last call, in their order.
Requests == SelectSeq(call.last.out.trace, LAMBDA e : e.kind = "request")

IsPrefix(s, t) == Len(s) <= Len(t) /\ SubSeq(t, 1, Len(s)) = s

\* The last call of the conversation was made with an id that was registered.
OnKnownContext ==
    call.fn = "conversation" /\ call.n > 0 /\ call.last.context_id \in DOMAIN call.last.before

\* C22: a call on a registered context sends the model that context's
\* earlier turns followed by the new prompt as the last turn (the first
\* request is exactly the earlier turns and the prompt), and on success the
\* context is what was sent followed by the reply as an assistant turn, which
\* is what the next call on the id finds.
C22_ContextCarried ==
    OnKnownContext =>
        LET earlier == call.last.before[call.last.context_id]
            asked == Message("user", call.last.prompt)
        IN  /\ \A i \in 1..Len(Requests) :
                 /\ IsPrefix(earlier, Requests[i].messages)
                 /\ Requests[i].messages[Len(Requests[i].messages)] = asked
            /\ Requests # <<>> => Requests[1].messages = Append(earlier, asked)
            /\ ~call.last.out.raised =>
                 call.chat_contexts[call.last.context_id] =
                     Append(Requests[Len(Requests)].messages, Message("assistant", "reply"))

C22_Witness ==
    /\ OnKnownContext /\ ~call.last.out.raised
    /\ Len(call.last.before[call.last.context_id]) >= 4
    /\ call.last.prompt.text = "p2"
    /\ call.last.out.attempts = 2

Roles(history) == [i \in 1..Len(history) |-> history[i].role]

\* user, assistant, user, assistant, ...
Alternates(history) ==
    \A i \in 1..Len(history) :
        history[i].role = IF i % 2 = 1 THEN "user" ELSE "assistant"

\* C28: after any sequence of calls, every registered context starts with a
\* user turn and alternates user and assistant turns, and a call on a
\* registered context has added its prompt to it once.
C28_HistoryAlternates ==
    (call.fn = "conversation" /\ call.n > 0) =>
        /\ \A c \in DOMAIN call.chat_contexts : Alternates(call.chat_contexts[c])
        /\ OnKnownContext =>
             LET c == call.last.context_id
                 Users(h) == Cardinality({i \in 1..Len(h) : h[i].role = "user"})
             IN  Users(call.chat_contexts[c]) = Users(call.last.before[c]) + 1

\* C29: with a callback registered, a call emits one claude_call event per
\* attempt, each carrying the first 50 characters of the prompt and each
\* right before its attempt's request; and the call makes the attempts and
\* has the outcome it has without a callback.
C29_OneEventPerAttempt ==
    (call.fn = "conversation" /\ call.n > 0 /\ status_callback # "none") =>
        LET out == call.last.out
            trace == out.trace
            events == SelectSeq(trace, LAMBDA e : e.kind = "claude_call")
            silent == call_claude(variant, call.last.outcomes)
        IN  /\ Len(events) = out.attempts
            /\ \A i \in 1..Len(events) :
                 /\ events[i].data.of = call.last.prompt.text
                 /\ events[i].data.chars = Min(50, call.last.prompt.len)
            /\ \A i \in 1..Len(trace) :
                 trace[i].kind = "request" => i > 1 /\ trace[i - 1].kind = "claude_call"
            /\ out.attempts = silent.attempts
            /\ out.raised = silent.raised

\* C34: a call with an id that is not registered registers, when it succeeds,
\* a context under that id that holds the prompt and the reply and nothing
\* else; a call that fails, or that is given no id, leaves the registered
\* contexts as they were.
C34_NewContextRegistered ==
    (call.fn = "conversation" /\ call.n > 0 /\ ~OnKnownContext) =>
        LET id == call.last.context_id
            before == call.last.before
            after == call.chat_contexts
        IN  IF id # NoContext /\ ~call.last.out.raised
            THEN /\ DOMAIN after = DOMAIN before \cup {id}
                 /\ after[id] = <<Message("user", call.last.prompt),
                                  Message("assistant", "reply")>>
                 /\ \A c \in DOMAIN before : after[c] = before[c]
            ELSE /\ DOMAIN after = DOMAIN before
                 /\ \A c \in DOMAIN before : after[c] = before[c]

C34_Witness ==
    /\ call.fn = "conversation" /\ call.n > 0 /\ ~OnKnownContext
    /\ call.last.context_id = "c2" /\ ~call.last.out.raised
    /\ call.last.out.attempts = 2
    /\ "c1" \in DOMAIN call.last.before

\* if not results:
NoResultsBranch(results) == results = <<>>

\* if not content: ... continue
EmptyContent(result) == ~result.content

\* C27: in the "async" copy fire_crawl returns at least one result and no
\* result with an empty markdown, so research_topic's no-results branch and
\* its empty-content skip are not taken on what fire_crawl returns (a failed
\* search gives one source, the synthetic one), and simple_research takes
\* neither of its fallback branches: it asks for a summary of the materials
\* and appends the Sources section, never the disclaimer.
C27_AsyncSearchNeverEmpty ==
    variant = "async" =>
        /\ (call.fn = "fire_crawl" /\ call.done /\ ~call.out.raised) =>
             /\ ~NoResultsBranch(call.out.results)
             /\ \A i \in 1..Len(call.out.results) : ~EmptyContent(call.out.results[i])
             /\ Len(call.out.results) \in SearchCounts
             /\ call.out.fallback => call.out.results = <<SyntheticResult>>
        /\ (call.fn = "simple_research" /\ call.done) =>
             /\ call.out.asked # "query"
             /\ ~call.out.disclaimer
             /\ ~call.out.raised => call.out.asked = "materials" /\ call.out.sources

C27_Witness ==
    /\ variant = "async" /\ call.fn = "simple_research" /\ call.done
    /\ call.search[1].kind = "network"
    /\ ~call.out.raised /\ call.out.sources

\* C23: when the search for the root query gives no result, research_topic
\* raises an error to its caller; it does not return a ResearchResult.
C23_EmptyRootSearchFails ==
    (canned.ns >= 1 /\ canned.search[1] = 0 /\ br[Root].pc \in Final) =>
        br[Root].pc = "raised"

\* The positions of a branch before its follow-up stage: not started, at its
\* search, and in the loop over its search results.
AtSources == {"queued", "search", "loop", "visited", "wait"}

\* The model is asked for follow-up topics only by a branch that leaves the
\* loop over its results in that step.
FollowupAsked ==
    [][canned'.nf # canned.nf =>
          \E p \in DOMAIN br : br[p].pc \in AtSources /\ br'[p].pc \notin AtSources]_vars

\* C24: a branch goes through its follow-up stage once; it calls
\* generate_followup_topics there at most once, and only with depth > 1 and
\* a learning in the accumulator; with depth 1 or an empty accumulator it
\* makes no such call and launches no branch.
C24_FollowupOnlyWithLearnings ==
    [][\A p \in DOMAIN br :
          /\ br[p].pc \notin AtSources => br'[p].pc \notin AtSources
          /\ (br[p].pc \in AtSources /\ br'[p].pc \notin AtSources) =>
                /\ canned'.nf - canned.nf <= 1
                /\ canned'.nf # canned.nf =>
                      br[p].depth > 1 /\ Elements(learnings) # {}
                /\ (br[p].depth <= 1 \/ Elements(learnings) = {}) =>
                      /\ canned'.nf = canned.nf
                      /\ DOMAIN br' = DOMAIN br]_vars

\* The search of branch p returns n results in this step.
SearchReturns(p, n) ==
    IF variant = "async"
    THEN /\ br[p].pc = "queued" /\ br'[p].pc # "queued"
         /\ canned'.ns = canned.ns + 1
         /\ canned.search[canned.ns + 1] = n
    ELSE /\ br[p].pc = "search" /\ br'[p].pc # "search"
         /\ canned.search[canned.asked[p]] = n

\* C25: a branch whose search returns the empty list emits one no-results
\* event and returns at once: the accumulator is as it was, no model call is
\* made, no branch is launched, and the other branches are as they were.
C25_EmptySearchReturns ==
    [][\A p \in DOMAIN br :
          SearchReturns(p, 0) =>
                /\ br'[p].pc = "returned"
                /\ status_callback = "returns" =>
                      canned'.events[p] = <<"research_start", "rate_limit">>
                /\ learnings' = learnings /\ visited_urls' = visited_urls
                /\ canned'.na = canned.na /\ canned'.nf = canned.nf
                /\ DOMAIN br' = DOMAIN br
                /\ \A q \in DOMAIN br \ {p} : br'[q] = br[q]]_vars

\* C26: when the follow-up generation of the root call raises (call_claude
\* fails after its last attempt, or the validation raises), the call does not
\* raise: it returns the accumulator, deduplicated and holding every finding
\* and URL gathered before the failure.
C26_FailureCaughtAndReturned ==
    (/\ canned.nf >= 1
     /\ generate_followup_topics(canned.followup[1], br[Root].breadth).raised
     /\ br[Root].pc \in Final) =>
        /\ br[Root].pc = "returned"
        /\ NoDuplicates(learnings) /\ NoDuplicates(visited_urls)
        /\ appended.learnings \subseteq Elements(learnings)
        /\ appended.visited_urls \subseteq Elements(visited_urls)

\* C30: whatever the status callback is (none, or a registered one), a run
\* of the "async" copy returns the ResearchResult and makes the sequence of
\* search and model calls that the canned responses determine (SerialRun
\* does not know the callback).  For the runs of depth 2, where the
\* follow-up branches make their calls one branch after the other.
C30_CallbackIndependence ==
    (variant = "async" /\ br[Root].depth = 2 /\ br[Root].pc \in Final) =>
        LET expected == SerialRun(canned, br[Root].depth, br[Root].breadth) IN
        /\ br[Root].pc = "returned"
        /\ Elements(learnings) = expected.learnings
        /\ Elements(visited_urls) = expected.visited_urls
        /\ canned.calls = expected.calls

\* The trimmed line without its marker and the whitespace after the marker.
WithoutMarker(l) == Strip(Tail(Strip(l)))

\* C36: the finding extract_learnings returns for a qualifying line is the
\* trimmed line without its leading marker and the whitespace that follows
\* the marker, and with nothing else removed: text that itself begins with
\* '*' or '-' is kept whole.
C36_OnlyMarkerStripped ==
    (call.fn = "extract_learnings" /\ call.done) =>
        LET bullets == SelectSeq(Split(call.content), Qualifies) IN
        Len(call.out) = Len(bullets) =>
            \A i \in 1..Len(bullets) : call.out[i] = WithoutMarker(bullets[i])

\* fire_crawl with a callback that returns, or without one, returns what
\* fire_crawl does.
FireCrawlAgrees ==
    (call.fn = "fire_crawl" /\ call.done /\ status_callback # "raises") =>
        LET silent == fire_crawl(variant, call.outcomes) IN
        \A f \in DOMAIN silent : call.out[f] = silent[f]

\* C33: with a callback registered, a fire_crawl call that returns its
\* fallback (its search has failed, or has come to no data) has emitted a
\* rate_limit event before it returns.
C33_FallbackAnnounced ==
    (/\ call.fn = "fire_crawl" /\ call.done
     /\ status_callback # "none"
     /\ ~call.out.raised
     /\ NoLiveData(call.outcomes, call.out.attempts)) =>
        \E i \in 1..Len(call.out.trace) : call.out.trace[i].kind = "rate_limit"

\* The analysis of a source of branch p fails in this step.
AnalysisFails(p) == ~br[p].failed /\ br'[p].failed

\* The step appends a URL to visited_urls.
UrlAppended == \E u \in Urls : visited_urls' = Append1(visited_urls, u)

\* Sources were analysed and none of them has contributed a learning.
NoSourceContributed == appended.visited_urls # {} /\ appended.learnings = {}

\* The URL of a source is appended although its analysis fails: the step in
\* which the analysis fails appends it, or the branch has appended it in the
\* step that took it to the analysis (and waits for the model's answer).
UrlAppendedFirst ==
    [][\A p \in DOMAIN br :
          /\ (br[p].pc # "visited" /\ br'[p].pc = "visited") => UrlAppended
          /\ (br[p].pc # "wait" /\ br'[p].pc = "wait") => br[p].pc = "visited"
          /\ AnalysisFails(p) => (br[p].pc = "wait" \/ UrlAppended)]_vars

\* C37: the URL of a source is appended although its analysis fails, and
\* when the root call has returned, visited_urls holds the URL of every
\* source that was analysed, also when no source has contributed a learning.
C37_UrlKeptWithoutLearning ==
    /\ UrlAppendedFirst
    /\ []((br[Root].pc = "returned" /\ NoSourceContributed) =>
              appended.visited_urls \subseteq Elements(visited_urls))

\* The events of one kind in a sequence of events.
OfKind(events, kind) == SelectSeq(events, LAMBDA e : e = kind)

\* Branch p has left the loop over its search results.
LoopDone(p) ==
    /\ p \in DOMAIN canned.asked
    /\ \/ br[p].pc \in Deduplicating \cup {"followup", "submit", "gather", "returned"}
       \/ br[p].pc = "loop" /\ br[p].idx = br[p].nres

\* Branch p skips a result without content in this step.
SkipsResult(p) ==
    /\ br[p].pc = "loop" /\ br[p].idx < br[p].nres
    /\ Item(canned, p) = "empty"
    /\ br'[p] # br[p]

\* C32: with a callback registered, a branch that has gone through the list
\* of its search results has emitted one source_processing event for each
\* of them, those without content included; and the step that skips a result
\* without content appends no URL and makes no model call.
C32_OneEventPerResult ==
    /\ [](status_callback = "returns" =>
             \A p \in DOMAIN br :
                 LoopDone(p) =>
                     Len(OfKind(canned.events[p], "source_processing"))
                         = canned.search[canned.asked[p]])
    /\ [][\A p \in DOMAIN br :
             SkipsResult(p) =>
                 /\ visited_urls' = visited_urls
                 /\ canned'.na = canned.na /\ canned'.calls = canned.calls]_vars

\* The part of C32 that is about the accumulator and the model.
SkippedAddsNothing ==
    [][\A p \in DOMAIN br :
          SkipsResult(p) =>
              /\ visited_urls' = visited_urls
              /\ canned'.na = canned.na /\ canned'.calls = canned.calls]_vars

\* The progress events of a branch, in the order of the stages they belong
\* to: the start, the sources, the follow-up topics.
Progress == {"research_start", "source_processing", "new_learning", "followup_topic"}
Stage(kind) ==
    IF kind = "research_start" THEN 0 ELSE IF kind = "followup_topic" THEN 2 ELSE 1

\* The place of branch c among the branches its parent has launched.
PlaceAmongSiblings(c) ==
    Cardinality({d \in Children(Parent(c)) : d[Len(d)] <= c[Len(c)]})

\* C31: the events a branch has emitted are in the order of the code.  Its
\* first event is research_start, which it emits once; a new_learning event
\* follows the source_processing event of its source or another new_learning
\* of that source; every followup_topic follows the last event of the
\* sources; and a follow-up branch emits research_start after its parent has
\* emitted the followup_topic of its query.
C31_EventsOrdered ==
    \A p \in DOMAIN canned.events :
        LET all == canned.events[p]
            e == SelectSeq(all, LAMBDA k : k \in Progress)
        IN  /\ all # <<>> => all[1] = "research_start"
            /\ Len(OfKind(all, "research_start")) <= 1
            /\ \A i \in 1..Len(e) :
                 /\ i > 1 => Stage(e[i - 1]) <= Stage(e[i])
                 /\ e[i] = "new_learning" =>
                       i > 1 /\ e[i - 1] \in {"source_processing", "new_learning"}
            /\ (p # Root /\ all # <<>>) =>
                 /\ Parent(p) \in DOMAIN canned.events
                 /\ Len(OfKind(canned.events[Parent(p)], "followup_topic"))
                        >= PlaceAmongSiblings(p)

C31_Witness ==
    /\ status_callback = "returns"
    /\ Root \in DOMAIN canned.events
    /\ Len(OfKind(canned.events[Root], "source_processing")) = 2
    /\ Len(OfKind(canned.events[Root], "new_learning")) >= 2
    /\ Len(OfKind(canned.events[Root], "followup_topic")) = 2
    /\ \E c \in Children(Root) :
         /\ c \in DOMAIN canned.events
         /\ OfKind(canned.events[c], "new_learning") # <<>>
         /\ br[c].pc = "returned"

\* The branches n levels below the root.
Level(n) == {p \in DOMAIN br : Len(p) = n}

\* The product of max(1, b - i) for i from 0 to n - 1.
RECURSIVE FanOut(_, _)
FanOut(b, n) ==
    IF n = 0 THEN 1 ELSE FanOut(b, n - 1) * (IF b - (n - 1) > 1 THEN b - (n - 1) ELSE 1)

\* C35: a branch has launched at most as many branches as its breadth, and
\* the number of branches n levels below the root of a run started with
\* breadth b is at most the product of max(1, b - i) for i from 0 to n - 1.
C35_FanOutBounded ==
    /\ \A p \in DOMAIN br : Cardinality(Children(p)) <= br[p].breadth
    /\ \A n \in 0..br[Root].depth :
         Cardinality(Level(n)) <= FanOut(br[Root].breadth, n)

C35_Witness ==
    /\ br[Root].pc = "returned"
    /\ canned.followup[1] = JsonList(<<"t1", "t2", "t1">>)
    /\ canned.nf = 3
    /\ Cardinality(Level(1)) = FanOut(br[Root].breadth, 1)
    /\ Cardinality(Level(2)) = FanOut(br[Root].breadth, 2)
    /\ FanOut(br[Root].breadth, 1) = 2

====
